---- MODULE Spec2Model ----
(***************************************************************************)
(* The in-memory relational store of the knowledge manager (MemStorage in  *)
(* server/storage.ts) and the link de-duplication of the semantic-network  *)
(* page.  Every table is a JavaScript Map keyed by id; a Map iterates in   *)
(* insertion order and ids are handed out in increasing order, so          *)
(* Array.from(map.values()) lists the rows by increasing id.               *)
(***************************************************************************)
EXTENDS Integers, Sequences, FiniteSets, TLC

VARIABLES users, documents, tags, documentTags, semanticLinks, ontologies,
          priorities, currentIds, now, ret, links, allLinks,
          pageDocuments, searchQuery, selectedCategory, linkTypeFilter,
          minStrength, maxNodes, dashboardLinks, detail, pending, reader,
          upload, request

vars == <<users, documents, tags, documentTags, semanticLinks, ontologies,
          priorities, currentIds, now, ret, links, allLinks,
          pageDocuments, searchQuery, selectedCategory, linkTypeFilter,
          minStrength, maxNodes, dashboardLinks, detail, pending, reader,
          upload, request>>

\* The state of the pages.  Of the semantic-network page: the rows its query
\* collected, the result of the query, the documents (the data of the query
\* "/api/documents", which the dashboard and the document page share) and the
\* filters.  Of the dashboard: the result of its query of the links.  Of the
\* document page: the document it shows and the links of the document.
page == <<links, allLinks, pageDocuments, searchQuery, selectedCategory,
          linkTypeFilter, minStrength, maxNodes, dashboardLinks, detail>>

\* The calls in progress: the results that wait for their callers, the
\* getUserDocumentsWithTags call, the upload request, and the request that
\* one of the other handlers of routes.ts is serving.
requests == <<pending, reader, upload, request>>

tables == <<users, documents, tags, documentTags, semanticLinks, ontologies,
            priorities>>

(***************************************************************************)
(* Bounds of the model.                                                    *)
(***************************************************************************)
\* The create operations of Next hand out at most MaxRows ids, all kinds
\* together; those of NextAll, NextLinks and NextCalls at most MaxRowsAll.
MaxRows == 4

MaxRowsAll == 2

\* The wall clock read by new Date() takes the values 0..MaxClock.
MaxClock == 2

\* The semantic-network page collects at most MaxFetched link rows, between the
\* documents 1..MaxDocument.
MaxFetched == 3

MaxDocument == 2

(***************************************************************************)
(* Strings.  A string is a sequence of one-letter strings, so that         *)
(* String.prototype.toLowerCase can be computed letter by letter.          *)
(***************************************************************************)
LowerChar(c) ==
  CASE c = "A" -> "a"
    [] c = "L" -> "l"
    [] c = "M" -> "m"
    [] c = "R" -> "r"
    [] c = "X" -> "x"
    [] OTHER -> c

toLowerCase(s) == [i \in DOMAIN s |-> LowerChar(s[i])]

\* "Research", "research" and "ML", abbreviated.
TagNames == { <<"R", "e">>, <<"r", "e">>, <<"M", "L">> }

UserNames == { <<"a", "l">>, <<"A", "l">> }

Emails == { <<"a", "@", "x">>, <<"a", "@", "X">> }

(***************************************************************************)
(* Map helpers.                                                            *)
(***************************************************************************)
\* Map.prototype.set
MapSet(m, k, v) == [x \in (DOMAIN m) \cup {k} |-> IF x = k THEN v ELSE m[x]]

\* Map.prototype.delete, for a set of keys
MapDelete(m, ks) == [x \in (DOMAIN m) \ ks |-> m[x]]

\* Map.prototype.has
MapHas(m, k) == k \in DOMAIN m

EmptyMap == [x \in {} |-> 0]

SetMin(S) == CHOOSE x \in S : \A y \in S : x <= y

\* The keys of the rows Array.prototype.filter keeps
MatchingKeys(m, P(_)) == {k \in DOMAIN m : P(m[k])}

\* { ...row, ...update }: the fields of update override those of row
Spread(row, update) ==
  [f \in (DOMAIN row) \cup (DOMAIN update) |->
     IF f \in DOMAIN update THEN update[f] ELSE row[f]]

\* What an operation hands back when it returns undefined, or a boolean.
NoRow == [id |-> 0]

Returned(op, args, ok, row) == [op |-> op, args |-> args, ok |-> ok, row |-> row]

(***************************************************************************)
(* Construction.                                                           *)
(***************************************************************************)
\* The useState calls of the semantic-network page.
FiltersAtLoad ==
  /\ searchQuery = <<>>
  /\ selectedCategory = "all"
  /\ linkTypeFilter = <<>>
  /\ minStrength = 1
  /\ maxNodes = 50

\* The dashboard and the document page before their queries have run.
NoDetail == [documentId |-> 0, document |-> [id |-> 0], links |-> <<>>]

OtherPagesAtLoad ==
  /\ dashboardLinks = <<>>
  /\ detail = NoDetail

\* No getUserDocumentsWithTags call is in progress.
NoReader ==
  [pc |-> "idle", userId |-> 0, userDocuments |-> <<>>, tags |-> <<>>,
   documentsWithTags |-> <<>>]

\* No upload request is in progress.
NoUpload ==
  [pc |-> "idle", tagNames |-> <<>>, given |-> <<>>, firstTagId |-> 0,
   document |-> NoRow, tag |-> NoRow, documentWithTags |-> NoRow]

\* No other handler is serving a request.
NoRequest ==
  [route |-> "", pc |-> "idle", userId |-> 0, id |-> 0, status |-> 0,
   update |-> [id |-> 0], newTagNames |-> <<>>, currentTags |-> <<>>,
   tagNames |-> <<>>, removals |-> <<>>, tag |-> [id |-> 0],
   link |-> [id |-> 0], relationships |-> <<>>, response |-> [id |-> 0]]

NoRequests ==
  /\ pending = <<>>
  /\ reader = NoReader
  /\ upload = NoUpload
  /\ request = NoRequest

Init ==
  /\ users = EmptyMap
  /\ documents = EmptyMap
  /\ tags = EmptyMap
  /\ documentTags = EmptyMap
  /\ semanticLinks = EmptyMap
  /\ ontologies = EmptyMap
  /\ priorities = EmptyMap
  /\ currentIds = [users |-> 1, documents |-> 1, tags |-> 1, documentTags |-> 1,
                   semanticLinks |-> 1, ontologies |-> 1, priorities |-> 1]
  /\ now = 0
  /\ ret = Returned("constructor", [id |-> 0], TRUE, NoRow)
  /\ links = <<>>
  /\ allLinks = <<>>
  /\ pageDocuments = <<>>
  /\ FiltersAtLoad
  /\ OtherPagesAtLoad
  /\ NoRequests

\* Time passes between two calls.
Tick ==
  /\ now < MaxClock
  /\ now' = now + 1
  /\ UNCHANGED <<tables, currentIds, ret, page, requests>>

(***************************************************************************)
(* User operations.                                                        *)
(***************************************************************************)
CreateUser(insertUser) ==
  /\ LET id == currentIds.users
         user == Spread(insertUser, [id |-> id])
     IN /\ currentIds' = [currentIds EXCEPT !.users = id + 1]
        /\ users' = MapSet(users, id, user)
        /\ ret' = Returned("createUser", insertUser, TRUE, user)
  /\ UNCHANGED <<documents, tags, documentTags, semanticLinks, ontologies,
                 priorities, now, page>>

(***************************************************************************)
(* Document operations.                                                    *)
(***************************************************************************)
\* A createDocument that numbers the row by the size of the table.
CreateDocumentBySize(insertDocument) ==
  /\ LET id == Cardinality(DOMAIN documents) + 1
         document == Spread(insertDocument,
                            [id |-> id, createdAt |-> now, updatedAt |-> now])
     IN /\ currentIds' = [currentIds EXCEPT !.documents = @ + 1]
        /\ documents' = MapSet(documents, id, document)
        /\ ret' = Returned("createDocument", insertDocument, TRUE, document)
  /\ UNCHANGED <<users, tags, documentTags, semanticLinks, ontologies,
                 priorities, now, page>>

CreateDocument(insertDocument) ==
  /\ LET id == currentIds.documents
         document == Spread(insertDocument,
                            [id |-> id, createdAt |-> now, updatedAt |-> now])
     IN /\ currentIds' = [currentIds EXCEPT !.documents = id + 1]
        /\ documents' = MapSet(documents, id, document)
        /\ ret' = Returned("createDocument", insertDocument, TRUE, document)
  /\ UNCHANGED <<users, tags, documentTags, semanticLinks, ontologies,
                 priorities, now, page>>

\* An updateDocument in which the updatedAt of the payload wins.
UpdateDocumentPayloadLast(id, documentUpdate) ==
  LET args == [id |-> id, update |-> documentUpdate] IN
  IF ~MapHas(documents, id)
  THEN /\ ret' = Returned("updateDocument", args, FALSE, NoRow)
       /\ UNCHANGED <<tables, currentIds, now, page>>
  ELSE LET updatedDocument ==
             Spread(Spread(documents[id], [updatedAt |-> now]), documentUpdate)
       IN /\ documents' = MapSet(documents, id, updatedDocument)
          /\ ret' = Returned("updateDocument", args, TRUE, updatedDocument)
          /\ UNCHANGED <<users, tags, documentTags, semanticLinks, ontologies,
                         priorities, currentIds, now, page>>

UpdateDocument(id, documentUpdate) ==
  LET args == [id |-> id, update |-> documentUpdate] IN
  IF ~MapHas(documents, id)
  THEN /\ ret' = Returned("updateDocument", args, FALSE, NoRow)
       /\ UNCHANGED <<tables, currentIds, now, page>>
  ELSE LET updatedDocument ==
             Spread(Spread(documents[id], documentUpdate), [updatedAt |-> now])
       IN /\ documents' = MapSet(documents, id, updatedDocument)
          /\ ret' = Returned("updateDocument", args, TRUE, updatedDocument)
          /\ UNCHANGED <<users, tags, documentTags, semanticLinks, ontologies,
                         priorities, currentIds, now, page>>

\* A lookup that takes the join rows of every document.
AllDocumentTags(id) == DOMAIN documentTags

\* The join rows and the links deleteDocument looks up before deleting.
DocumentTagsOf(id) ==
  {k \in DOMAIN documentTags : documentTags[k].documentId = id}

\* A cascade that forgets the links pointing at the document.
LinksFrom(id) ==
  {k \in DOMAIN semanticLinks : semanticLinks[k].sourceDocumentId = id}

LinksTouching(id) ==
  {k \in DOMAIN semanticLinks :
     \/ semanticLinks[k].sourceDocumentId = id
     \/ semanticLinks[k].targetDocumentId = id}

\* A deleteDocument that removes the Document row first.
DocumentRowFirst(id) ==
  LET afterDocument ==
        [documentTags |-> documentTags, semanticLinks |-> semanticLinks,
         documents |-> MapDelete(documents, {id})]
      afterTags ==
        [afterDocument EXCEPT
           !.documentTags = MapDelete(documentTags, DocumentTagsOf(id))]
      afterLinks ==
        [afterTags EXCEPT
           !.semanticLinks = MapDelete(semanticLinks, LinksTouching(id))]
  IN <<afterDocument, afterTags, afterLinks>>

\* The tables after each of the three loops and deletes of deleteDocument,
\* in the order of the code.
DeleteDocumentSteps(id) ==
  LET afterTags ==
        [documentTags |-> MapDelete(documentTags, DocumentTagsOf(id)),
         semanticLinks |-> semanticLinks,
         documents |-> documents]
      afterLinks ==
        [afterTags EXCEPT
           !.semanticLinks = MapDelete(semanticLinks, LinksTouching(id))]
      afterDocument ==
        [afterLinks EXCEPT !.documents = MapDelete(documents, {id})]
  IN <<afterTags, afterLinks, afterDocument>>

DeleteDocument(id) ==
  /\ documentTags' = MapDelete(documentTags, DocumentTagsOf(id))
  /\ semanticLinks' = MapDelete(semanticLinks, LinksTouching(id))
  /\ documents' = MapDelete(documents, {id})
  /\ ret' = Returned("deleteDocument", [id |-> id], MapHas(documents, id), NoRow)
  /\ UNCHANGED <<users, tags, ontologies, priorities, currentIds, now, page>>

(***************************************************************************)
(* Tag operations.                                                         *)
(***************************************************************************)
\* createTag, also the tail of getOrCreateTag (op names the caller).
InsertTag(op, args, insertTag) ==
  /\ LET id == currentIds.tags
         tag == Spread(insertTag, [id |-> id])
     IN /\ currentIds' = [currentIds EXCEPT !.tags = id + 1]
        /\ tags' = MapSet(tags, id, tag)
        /\ ret' = Returned(op, args, TRUE, tag)
  /\ UNCHANGED <<users, documents, documentTags, semanticLinks, ontologies,
                 priorities, now, page>>

CreateTag(insertTag) == InsertTag("createTag", insertTag, insertTag)

\* A lookup that compares the names as they are written.
ExactTags(name) == {k \in DOMAIN tags : tags[k].name = name}

\* Array.prototype.find over tags.values(): the ids of the rows that match
ExistingTags(name) ==
  {k \in DOMAIN tags : toLowerCase(tags[k].name) = toLowerCase(name)}

\* A getOrCreateTag that does not see the tag another call has created.
AlwaysCreateTag(name) ==
  InsertTag("getOrCreateTag", [name |-> name], [name |-> name])

GetOrCreateTag(name) ==
  LET args == [name |-> name] IN
  IF ExistingTags(name) # {}
  THEN /\ ret' = Returned("getOrCreateTag", args, TRUE,
                          tags[SetMin(ExistingTags(name))])
       /\ UNCHANGED <<tables, currentIds, now, page>>
  ELSE InsertTag("getOrCreateTag", args, [name |-> name])

\* A lookup that never finds the join row.
NoDocumentTags(documentId, tagId) == {}

ExistingDocumentTags(documentId, tagId) ==
  {k \in DOMAIN documentTags :
     documentTags[k].documentId = documentId /\ documentTags[k].tagId = tagId}

\* An addTagToDocument that does not look for the join row first.
AddTagAlways(documentId, tagId) ==
  /\ LET id == currentIds.documentTags
         documentTag == [id |-> id, documentId |-> documentId, tagId |-> tagId]
     IN /\ currentIds' = [currentIds EXCEPT !.documentTags = id + 1]
        /\ documentTags' = MapSet(documentTags, id, documentTag)
        /\ ret' = Returned("addTagToDocument",
                           [documentId |-> documentId, tagId |-> tagId],
                           TRUE, documentTag)
  /\ UNCHANGED <<users, documents, tags, semanticLinks, ontologies,
                 priorities, now, page>>

AddTagToDocument(documentId, tagId) ==
  LET args == [documentId |-> documentId, tagId |-> tagId] IN
  IF ExistingDocumentTags(documentId, tagId) # {}
  THEN /\ ret' = Returned("addTagToDocument", args, TRUE,
                    documentTags[SetMin(ExistingDocumentTags(documentId, tagId))])
       /\ UNCHANGED <<tables, currentIds, now, page>>
  ELSE /\ LET id == currentIds.documentTags
              documentTag == [id |-> id, documentId |-> documentId, tagId |-> tagId]
          IN /\ currentIds' = [currentIds EXCEPT !.documentTags = id + 1]
             /\ documentTags' = MapSet(documentTags, id, documentTag)
             /\ ret' = Returned("addTagToDocument", args, TRUE, documentTag)
       /\ UNCHANGED <<users, documents, tags, semanticLinks, ontologies,
                      priorities, now, page>>

\* A removeTagFromDocument that removes every join row of the document.
RemoveTagsOfDocument(documentId, tagId) ==
  LET args == [documentId |-> documentId, tagId |-> tagId] IN
  IF ExistingDocumentTags(documentId, tagId) = {}
  THEN /\ ret' = Returned("removeTagFromDocument", args, FALSE, NoRow)
       /\ UNCHANGED <<tables, currentIds, now, page>>
  ELSE /\ documentTags' = MapDelete(documentTags, DocumentTagsOf(documentId))
       /\ ret' = Returned("removeTagFromDocument", args, TRUE, NoRow)
       /\ UNCHANGED <<users, documents, tags, semanticLinks, ontologies,
                      priorities, currentIds, now, page>>

RemoveTagFromDocument(documentId, tagId) ==
  LET args == [documentId |-> documentId, tagId |-> tagId] IN
  IF ExistingDocumentTags(documentId, tagId) = {}
  THEN /\ ret' = Returned("removeTagFromDocument", args, FALSE, NoRow)
       /\ UNCHANGED <<tables, currentIds, now, page>>
  ELSE /\ documentTags' =
            MapDelete(documentTags, {SetMin(ExistingDocumentTags(documentId, tagId))})
       /\ ret' = Returned("removeTagFromDocument", args, TRUE, NoRow)
       /\ UNCHANGED <<users, documents, tags, semanticLinks, ontologies,
                      priorities, currentIds, now, page>>

(***************************************************************************)
(* Semantic link operations.                                               *)
(***************************************************************************)
\* getDocumentLinks: the rows, by increasing id
GetDocumentLinks(documentId) ==
  {semanticLinks[k] : k \in
     {j \in DOMAIN semanticLinks :
        \/ semanticLinks[j].sourceDocumentId = documentId
        \/ semanticLinks[j].targetDocumentId = documentId}}

CreateSemanticLink(insertLink) ==
  /\ LET id == currentIds.semanticLinks
         link == Spread(insertLink, [id |-> id])
     IN /\ currentIds' = [currentIds EXCEPT !.semanticLinks = id + 1]
        /\ semanticLinks' = MapSet(semanticLinks, id, link)
        /\ ret' = Returned("createSemanticLink", insertLink, TRUE, link)
  /\ UNCHANGED <<users, documents, tags, documentTags, ontologies,
                 priorities, now, page>>

\* An updateSemanticLink that stores the update whether or not the row exists.
UpsertSemanticLink(id, linkUpdate) ==
  LET args == [id |-> id, update |-> linkUpdate]
      updatedLink == IF MapHas(semanticLinks, id)
                     THEN Spread(semanticLinks[id], linkUpdate)
                     ELSE Spread([id |-> id], linkUpdate)
  IN /\ semanticLinks' = MapSet(semanticLinks, id, updatedLink)
     /\ ret' = Returned("updateSemanticLink", args, TRUE, updatedLink)
     /\ UNCHANGED <<users, documents, tags, documentTags, ontologies,
                    priorities, currentIds, now, page>>

UpdateSemanticLink(id, linkUpdate) ==
  LET args == [id |-> id, update |-> linkUpdate] IN
  IF ~MapHas(semanticLinks, id)
  THEN /\ ret' = Returned("updateSemanticLink", args, FALSE, NoRow)
       /\ UNCHANGED <<tables, currentIds, now, page>>
  ELSE LET updatedLink == Spread(semanticLinks[id], linkUpdate)
       IN /\ semanticLinks' = MapSet(semanticLinks, id, updatedLink)
          /\ ret' = Returned("updateSemanticLink", args, TRUE, updatedLink)
          /\ UNCHANGED <<users, documents, tags, documentTags, ontologies,
                         priorities, currentIds, now, page>>

DeleteSemanticLink(id) ==
  /\ semanticLinks' = MapDelete(semanticLinks, {id})
  /\ ret' = Returned("deleteSemanticLink", [id |-> id], MapHas(semanticLinks, id), NoRow)
  /\ UNCHANGED <<users, documents, tags, documentTags, ontologies,
                 priorities, currentIds, now, page>>

(***************************************************************************)
(* Documents with their tags.                                              *)
(***************************************************************************)
\* The elements of a set of ids in the order a Map iterates over them.
RECURSIVE InOrder(_)
InOrder(S) ==
  IF S = {} THEN <<>> ELSE <<SetMin(S)>> \o InOrder(S \ {SetMin(S)})

\* getTagsByDocumentId: the tags of the join rows of the document, by
\* increasing id of the join row; a join row whose tag is missing adds none.
GetTagsByDocumentId(documentId) ==
  LET documentTagEntries ==
        InOrder({k \in DOMAIN documentTags :
                   documentTags[k].documentId = documentId})
      TagIsThere(k) == MapHas(tags, documentTags[k].tagId)
      found == SelectSeq(documentTagEntries, TagIsThere)
  IN [i \in DOMAIN found |-> tags[documentTags[found[i]].tagId]]

\* getDocumentsByUserId
GetDocumentsByUserId(userId) ==
  LET found == InOrder({k \in DOMAIN documents : documents[k].userId = userId})
  IN [i \in DOMAIN found |-> documents[found[i]]]

\* A getDocumentWithTags that answers for a missing document with an empty
\* list of tags.
GetDocumentWithNoTags(id) ==
  /\ ret' = Returned("getDocumentWithTags", [id |-> id], TRUE,
                     IF MapHas(documents, id)
                     THEN Spread(documents[id], [tags |-> GetTagsByDocumentId(id)])
                     ELSE [id |-> id, tags |-> <<>>])
  /\ UNCHANGED <<tables, currentIds, now, page>>

\* getDocumentWithTags reads the document and its tags before it first
\* suspends, so both come from the state in which it is called.
GetDocumentWithTags(id) ==
  /\ ret' = IF ~MapHas(documents, id)
            THEN Returned("getDocumentWithTags", [id |-> id], FALSE, NoRow)
            ELSE Returned("getDocumentWithTags", [id |-> id], TRUE,
                          Spread(documents[id],
                                 [tags |-> GetTagsByDocumentId(id)]))
  /\ UNCHANGED <<tables, currentIds, now, page>>

(***************************************************************************)
(* Ontology operations.                                                    *)
(***************************************************************************)
CreateOntology(insertOntology) ==
  /\ LET id == currentIds.ontologies
         ontology == Spread(insertOntology,
                            [id |-> id, createdAt |-> now, updatedAt |-> now])
     IN /\ currentIds' = [currentIds EXCEPT !.ontologies = id + 1]
        /\ ontologies' = MapSet(ontologies, id, ontology)
        /\ ret' = Returned("createOntology", insertOntology, TRUE, ontology)
  /\ UNCHANGED <<users, documents, tags, documentTags, semanticLinks,
                 priorities, now, page>>

UpdateOntology(id, ontologyUpdate) ==
  LET args == [id |-> id, update |-> ontologyUpdate] IN
  IF ~MapHas(ontologies, id)
  THEN /\ ret' = Returned("updateOntology", args, FALSE, NoRow)
       /\ UNCHANGED <<tables, currentIds, now, page>>
  ELSE LET updatedOntology ==
             Spread(Spread(ontologies[id], ontologyUpdate), [updatedAt |-> now])
       IN /\ ontologies' = MapSet(ontologies, id, updatedOntology)
          /\ ret' = Returned("updateOntology", args, TRUE, updatedOntology)
          /\ UNCHANGED <<users, documents, tags, documentTags, semanticLinks,
                         priorities, currentIds, now, page>>

DeleteOntology(id) ==
  /\ ontologies' = MapDelete(ontologies, {id})
  /\ ret' = Returned("deleteOntology", [id |-> id], MapHas(ontologies, id), NoRow)
  /\ UNCHANGED <<users, documents, tags, documentTags, semanticLinks,
                 priorities, currentIds, now, page>>

(***************************************************************************)
(* Priority operations.                                                    *)
(***************************************************************************)
CreatePriority(insertPriority) ==
  /\ LET id == currentIds.priorities
         priority == Spread(insertPriority, [id |-> id, createdAt |-> now])
     IN /\ currentIds' = [currentIds EXCEPT !.priorities = id + 1]
        /\ priorities' = MapSet(priorities, id, priority)
        /\ ret' = Returned("createPriority", insertPriority, TRUE, priority)
  /\ UNCHANGED <<users, documents, tags, documentTags, semanticLinks,
                 ontologies, now, page>>

\* updatePriority, also the whole of completePriority (op names the caller).
MergePriority(op, id, priorityUpdate) ==
  LET args == [id |-> id, update |-> priorityUpdate] IN
  IF ~MapHas(priorities, id)
  THEN /\ ret' = Returned(op, args, FALSE, NoRow)
       /\ UNCHANGED <<tables, currentIds, now, page>>
  ELSE LET updatedPriority == Spread(priorities[id], priorityUpdate)
       IN /\ priorities' = MapSet(priorities, id, updatedPriority)
          /\ ret' = Returned(op, args, TRUE, updatedPriority)
          /\ UNCHANGED <<users, documents, tags, documentTags, semanticLinks,
                         ontologies, currentIds, now, page>>

UpdatePriority(id, priorityUpdate) == MergePriority("updatePriority", id, priorityUpdate)

CompletePriority(id, completed) ==
  MergePriority("completePriority", id, [completed |-> completed])

DeletePriority(id) ==
  /\ priorities' = MapDelete(priorities, {id})
  /\ ret' = Returned("deletePriority", [id |-> id], MapHas(priorities, id), NoRow)
  /\ UNCHANGED <<users, documents, tags, documentTags, semanticLinks,
                 ontologies, currentIds, now, page>>

(***************************************************************************)
(* The semantic-network page: removing duplicate links.                    *)
(***************************************************************************)
Min(a, b) == IF a <= b THEN a ELSE b

Max(a, b) == IF a >= b THEN a ELSE b

\* A key that takes the direction of the link into account.
DirectedKey(link) == <<link.sourceDocumentId, link.targetDocumentId>>

\* `${Math.min(source, target)}-${Math.max(source, target)}`: two ids written
\* in decimal and joined by a dash, which is the pair of them.
LinkKey(link) ==
  << Min(link.sourceDocumentId, link.targetDocumentId),
     Max(link.sourceDocumentId, link.targetDocumentId) >>

\* linkMap is a Map: its entries in insertion order.
LinkMapHas(linkMap, key) == \E i \in DOMAIN linkMap : linkMap[i].key = key

LinkMapGet(linkMap, key) ==
  linkMap[CHOOSE i \in DOMAIN linkMap : linkMap[i].key = key].link

\* Map.prototype.set keeps the place of a key that is already there.
LinkMapSet(linkMap, key, link) ==
  IF LinkMapHas(linkMap, key)
  THEN [i \in DOMAIN linkMap |->
          IF linkMap[i].key = key THEN [key |-> key, link |-> link] ELSE linkMap[i]]
  ELSE Append(linkMap, [key |-> key, link |-> link])

\* linkMap.get(key)?.strength || 0
KeptStrength(linkMap, key) ==
  IF LinkMapHas(linkMap, key) /\ LinkMapGet(linkMap, key).strength # 0
  THEN LinkMapGet(linkMap, key).strength
  ELSE 0

\* A loop body that lets a link of the same strength replace the kept one.
KeepAsStrong(linkMap, link) ==
  IF \/ ~LinkMapHas(linkMap, LinkKey(link))
     \/ link.strength >= KeptStrength(linkMap, LinkKey(link))
  THEN LinkMapSet(linkMap, LinkKey(link), link)
  ELSE linkMap

\* The body of links.forEach
KeepStronger(linkMap, link) ==
  IF \/ ~LinkMapHas(linkMap, LinkKey(link))
     \/ link.strength > KeptStrength(linkMap, LinkKey(link))
  THEN LinkMapSet(linkMap, LinkKey(link), link)
  ELSE linkMap

RECURSIVE ForEachLink(_, _)
ForEachLink(linkMap, ls) ==
  IF ls = <<>> THEN linkMap
  ELSE ForEachLink(KeepStronger(linkMap, Head(ls)), Tail(ls))

\* Array.from(linkMap.values())
RemoveDuplicates(ls) ==
  LET linkMap == ForEachLink(<<>>, ls)
  IN [i \in DOMAIN linkMap |-> linkMap[i].link]

(***************************************************************************)
(* The semantic-network page: the filters and the graph.  The page draws   *)
(* again after every change of its state: what it draws, graphNodes and    *)
(* graphLinks, is computed from the state it is in.                        *)
(***************************************************************************)
\* String.prototype.includes
Includes(s, q) ==
  \E str \in {s}, sub \in {q} :
    \E i \in 0..(Len(str) - Len(sub)) : SubSeq(str, i + 1, i + Len(sub)) = sub

\* Array.prototype.includes, Array.prototype.some with an equality test
Contains(array, x) ==
  \E a \in {array}, v \in {x} : \E i \in DOMAIN a : a[i] = v

\* Array.prototype.map
ArrayMap(array, Op(_)) ==
  CHOOSE mapped \in {[i \in DOMAIN a |-> Op(a[i])] : a \in {array}} : TRUE

\* Array.prototype.indexOf
IndexOf(array, x) ==
  CHOOSE index \in -1..Len(array) :
    \E a \in {array}, v \in {x} :
      IF \E i \in DOMAIN a : a[i] = v
      THEN /\ index + 1 \in DOMAIN a
           /\ a[index + 1] = v
           /\ \A i \in 1..index : a[i] # v
      ELSE index = -1

\* Array.from(new Set(array)): the elements in the order they first occur
RECURSIVE AddUnique(_, _)
AddUnique(seen, array) ==
  IF array = <<>> THEN seen
  ELSE AddUnique(IF Contains(seen, Head(array)) THEN seen
                 ELSE Append(seen, Head(array)),
                 Tail(array))

Unique(array) == AddUnique(<<>>, array)

HasCategory(doc) == doc.category # ""

Category(doc) == doc.category

categories == Unique(ArrayMap(SelectSeq(pageDocuments, HasCategory), Category))

MatchesSearchAndCategory(doc) ==
  LET matchesSearch ==
        IF searchQuery # <<>>
        THEN Includes(toLowerCase(doc.title), toLowerCase(searchQuery))
        ELSE TRUE
      matchesCategory ==
        selectedCategory = "all" \/ doc.category = selectedCategory
  IN matchesSearch /\ matchesCategory

filteredDocuments == SelectSeq(pageDocuments, MatchesSearchAndCategory)

HasDocument(docs, id) ==
  \E found \in {docs} : \E i \in DOMAIN found : found[i].id = id

\* A filter without the strength threshold.
PassesAnyStrength(link) ==
  /\ HasDocument(filteredDocuments, link.sourceDocumentId)
  /\ HasDocument(filteredDocuments, link.targetDocumentId)
  /\ Len(linkTypeFilter) = 0 \/ Contains(linkTypeFilter, link.linkType)

PassesFilters(link) ==
  LET isDocumentIncluded ==
        /\ HasDocument(filteredDocuments, link.sourceDocumentId)
        /\ HasDocument(filteredDocuments, link.targetDocumentId)
      matchesLinkType ==
        Len(linkTypeFilter) = 0 \/ Contains(linkTypeFilter, link.linkType)
      meetsStrengthThreshold == link.strength >= minStrength
  IN isDocumentIncluded /\ matchesLinkType /\ meetsStrengthThreshold

filteredLinks == SelectSeq(allLinks, PassesFilters)

\* Array.prototype.slice(0, end)
SliceFromStart(array, end) ==
  CHOOSE slice \in {SubSeq(a, 1, IF end < Len(a) THEN end ELSE Len(a)) :
                      a \in {array}} : TRUE

limitedDocuments == SliceFromStart(filteredDocuments, maxNodes)

\* A filter that looks at the source of the link alone.
SourceIsLimited(link) == HasDocument(limitedDocuments, link.sourceDocumentId)

BetweenLimitedDocuments(link) ==
  /\ HasDocument(limitedDocuments, link.sourceDocumentId)
  /\ HasDocument(limitedDocuments, link.targetDocumentId)

limitedLinks == SelectSeq(filteredLinks, BetweenLimitedDocuments)

GraphNode(doc) ==
  [id |-> ToString(doc.id),
   label |-> SliceFromStart(doc.title, 8),
   type |-> IF doc.category # "" THEN doc.category ELSE "document",
   group |-> IndexOf(categories, doc.category) + 1]

graphNodes == ArrayMap(limitedDocuments, GraphNode)

GraphLink(link) ==
  [source |-> ToString(link.sourceDocumentId),
   target |-> ToString(link.targetDocumentId),
   type |-> link.linkType,
   strength |-> link.strength]

graphLinks == ArrayMap(limitedLinks, GraphLink)

\* The query of the page hands the collected rows over without their
\* duplicates; it runs once the documents are there.
QueryAllLinks ==
  /\ Len(pageDocuments) > 0
  /\ allLinks' = RemoveDuplicates(links)
  /\ UNCHANGED <<tables, currentIds, now, ret, requests, dashboardLinks, detail, links, pageDocuments,
                 searchQuery, selectedCategory, linkTypeFilter, minStrength,
                 maxNodes>>

SetSearchQuery(query) ==
  /\ searchQuery' = query
  /\ UNCHANGED <<tables, currentIds, now, ret, requests, dashboardLinks, detail, links, allLinks,
                 pageDocuments, selectedCategory, linkTypeFilter, minStrength,
                 maxNodes>>

SetSelectedCategory(value) ==
  /\ selectedCategory' = value
  /\ UNCHANGED <<tables, currentIds, now, ret, requests, dashboardLinks, detail, links, allLinks,
                 pageDocuments, searchQuery, linkTypeFilter, minStrength,
                 maxNodes>>

IsNot(type, t) == t # type

handleLinkTypeToggle(type) ==
  /\ linkTypeFilter' =
       IF Contains(linkTypeFilter, type)
       THEN LET Other(t) == IsNot(type, t) IN SelectSeq(linkTypeFilter, Other)
       ELSE Append(linkTypeFilter, type)
  /\ UNCHANGED <<tables, currentIds, now, ret, requests, dashboardLinks, detail, links, allLinks,
                 pageDocuments, searchQuery, selectedCategory, minStrength,
                 maxNodes>>

SetMinStrength(value) ==
  /\ minStrength' = value
  /\ UNCHANGED <<tables, currentIds, now, ret, requests, dashboardLinks, detail, links, allLinks,
                 pageDocuments, searchQuery, selectedCategory, linkTypeFilter,
                 maxNodes>>

SetMaxNodes(value) ==
  /\ maxNodes' = value
  /\ UNCHANGED <<tables, currentIds, now, ret, requests, dashboardLinks, detail, links, allLinks,
                 pageDocuments, searchQuery, selectedCategory, linkTypeFilter,
                 minStrength>>

(***************************************************************************)
(* What the pages fetch.  The dashboard, the semantic-network page and the *)
(* document page read the documents of the signed-in user under one query  *)
(* key, and the links of one document at a time.                           *)
(***************************************************************************)
\* getDocumentLinks as the response lists it: the rows by increasing id.
LinkRows(documentId) ==
  LET found == InOrder({k \in DOMAIN semanticLinks :
                          \/ semanticLinks[k].sourceDocumentId = documentId
                          \/ semanticLinks[k].targetDocumentId = documentId})
  IN [i \in DOMAIN found |-> semanticLinks[found[i]]]

\* GET /api/documents/:id/links: the rows, or nothing when the document is
\* missing or belongs to another user (the pages skip a response that is not
\* ok).
LinksResponse(userId, documentId) ==
  IF MapHas(documents, documentId) /\ documents[documentId].userId = userId
  THEN LinkRows(documentId)
  ELSE <<>>

\* The loop of the two link queries: the responses for the documents in turn.
RECURSIVE CollectLinks(_, _)
CollectLinks(userId, docIds) ==
  IF docIds = <<>> THEN <<>>
  ELSE LinksResponse(userId, Head(docIds)) \o CollectLinks(userId, Tail(docIds))

IdOf(doc) == doc.id

\* GET /api/documents, answered from one state of the store.
QueryDocuments(userId) ==
  /\ \E docs \in {GetDocumentsByUserId(userId)} :
       pageDocuments' =
         [i \in DOMAIN docs |->
            Spread(docs[i], [tags |-> GetTagsByDocumentId(docs[i].id)])]
  /\ UNCHANGED <<tables, currentIds, now, ret, requests, dashboardLinks, detail,
                 links, allLinks, searchQuery, selectedCategory, linkTypeFilter,
                 minStrength, maxNodes>>

\* The query of the semantic-network page: it collects the links of every
\* document and removes the duplicates.
FetchAllLinks(userId) ==
  /\ Len(pageDocuments) > 0
  /\ \E collected \in {CollectLinks(userId, ArrayMap(pageDocuments, IdOf))} :
       /\ links' = collected
       /\ allLinks' = RemoveDuplicates(collected)
  /\ UNCHANGED <<tables, currentIds, now, ret, requests, dashboardLinks, detail,
                 pageDocuments, searchQuery, selectedCategory, linkTypeFilter,
                 minStrength, maxNodes>>

(***************************************************************************)
(* The dashboard.                                                          *)
(***************************************************************************)
recentDocIds == ArrayMap(SliceFromStart(pageDocuments, 10), IdOf)

\* The query of the dashboard returns the rows as it collected them.
QueryDashboardLinks(userId) ==
  /\ Len(recentDocIds) > 0
  /\ dashboardLinks' = CollectLinks(userId, recentDocIds)
  /\ UNCHANGED <<tables, currentIds, now, ret, requests, detail, links, allLinks,
                 pageDocuments, searchQuery, selectedCategory, linkTypeFilter,
                 minStrength, maxNodes>>

\* The rows of the list of recent documents of the dashboard.
recentDocuments == SliceFromStart(pageDocuments, 5)

IsRecent(doc) == Contains(recentDocIds, doc.id)

DashboardNode(doc) ==
  [id |-> ToString(doc.id),
   label |-> SliceFromStart(doc.title, 8),
   type |-> IF doc.category # "" THEN doc.category ELSE "document"]

dashboardGraphNodes == ArrayMap(SelectSeq(pageDocuments, IsRecent), DashboardNode)

BetweenRecent(link) ==
  /\ Contains(recentDocIds, link.sourceDocumentId)
  /\ Contains(recentDocIds, link.targetDocumentId)

dashboardGraphLinks == ArrayMap(SelectSeq(dashboardLinks, BetweenRecent), GraphLink)

(***************************************************************************)
(* The document page.                                                      *)
(***************************************************************************)
\* The page is opened on /documents/:id.
OpenDocumentDetail(id) ==
  /\ detail' = [documentId |-> id, document |-> [id |-> 0], links |-> <<>>]
  /\ UNCHANGED <<tables, currentIds, now, ret, requests, dashboardLinks, links,
                 allLinks, pageDocuments, searchQuery, selectedCategory,
                 linkTypeFilter, minStrength, maxNodes>>

\* GET /api/documents/:id: the document with its tags, when it is there and
\* belongs to the user.
QueryDocument(userId) ==
  /\ detail.documentId # 0
  /\ MapHas(documents, detail.documentId)
  /\ documents[detail.documentId].userId = userId
  /\ detail' = [detail EXCEPT !.document =
                  Spread(documents[detail.documentId],
                         [tags |-> GetTagsByDocumentId(detail.documentId)])]
  /\ UNCHANGED <<tables, currentIds, now, ret, requests, dashboardLinks, links,
                 allLinks, pageDocuments, searchQuery, selectedCategory,
                 linkTypeFilter, minStrength, maxNodes>>

QueryDocumentLinks(userId) ==
  /\ detail.documentId # 0
  /\ detail' = [detail EXCEPT !.links = LinksResponse(userId, detail.documentId)]
  /\ UNCHANGED <<tables, currentIds, now, ret, requests, dashboardLinks, links,
                 allLinks, pageDocuments, searchQuery, selectedCategory,
                 linkTypeFilter, minStrength, maxNodes>>

\* The page draws the network once the document is there and has links.
HasNetwork == detail.document.id # 0 /\ Len(detail.links) > 0

OtherId(link) ==
  IF link.sourceDocumentId = detail.document.id
  THEN link.targetDocumentId
  ELSE link.sourceDocumentId

linkedDocIds == {OtherId(detail.links[i]) : i \in DOMAIN detail.links}

IsLinked(doc) == doc.id \in linkedDocIds

CurrentNode(doc) ==
  [id |-> ToString(doc.id), label |-> SliceFromStart(doc.title, 8), group |-> 1]

LinkedNode(doc) ==
  [id |-> ToString(doc.id), label |-> SliceFromStart(doc.title, 8), group |-> 2]

networkNodes ==
  IF HasNetwork
  THEN <<CurrentNode(detail.document)>>
         \o ArrayMap(SelectSeq(pageDocuments, IsLinked), LinkedNode)
  ELSE <<>>

networkLinks ==
  IF HasNetwork THEN ArrayMap(detail.links, GraphLink) ELSE <<>>

(***************************************************************************)
(* The upload request, POST /api/documents, from createDocument on.  The   *)
(* handler awaits every call of the store, so it is a sequence of steps.   *)
(***************************************************************************)
\* The handler creates the document; userTags is req.body.tags split at the
\* commas and trimmed.
UploadDocument(insertDocument, userTags) ==
  /\ upload.pc \in {"idle", "responded"}
  /\ CreateDocument(insertDocument)
  /\ upload' = [NoUpload EXCEPT !.pc = "tags", !.tagNames = userTags,
                                !.given = userTags,
                                !.firstTagId = currentIds.tags,
                                !.document = ret'.row]
  /\ UNCHANGED <<pending, reader, request>>

\* if (tagName) is false for the empty name
UploadSkipEmptyName ==
  /\ upload.pc = "tags"
  /\ upload.tagNames # <<>> /\ Head(upload.tagNames) = <<>>
  /\ upload' = [upload EXCEPT !.tagNames = Tail(@)]
  /\ UNCHANGED <<tables, currentIds, now, ret, page, pending, reader, request>>

UploadGetOrCreateTag ==
  /\ upload.pc = "tags"
  /\ upload.tagNames # <<>> /\ Head(upload.tagNames) # <<>>
  /\ GetOrCreateTag(Head(upload.tagNames))
  /\ upload' = [upload EXCEPT !.pc = "attach", !.tag = ret'.row]
  /\ UNCHANGED <<pending, reader, request>>

UploadAddTagToDocument ==
  /\ upload.pc = "attach"
  /\ AddTagToDocument(upload.document.id, upload.tag.id)
  /\ upload' = [upload EXCEPT !.pc = "tags", !.tagNames = Tail(@)]
  /\ UNCHANGED <<pending, reader, request>>

\* res.status(201).json(documentWithTags)
UploadRespond ==
  /\ upload.pc = "tags"
  /\ upload.tagNames = <<>>
  /\ GetDocumentWithTags(upload.document.id)
  /\ upload' = [upload EXCEPT !.pc = "responded", !.documentWithTags = ret'.row]
  /\ UNCHANGED <<pending, reader, request>>

(***************************************************************************)
(* getUserDocumentsWithTags, which suspends after it has listed the        *)
(* documents and after it has read the tags of each of them.               *)
(***************************************************************************)
GetUserDocumentsWithTags(userId) ==
  /\ reader.pc \in {"idle", "returned"}
  /\ reader' = [NoReader EXCEPT !.pc = "documents", !.userId = userId,
                                !.userDocuments = GetDocumentsByUserId(userId)]
  /\ UNCHANGED <<tables, currentIds, now, ret, page, pending, upload, request>>

\* The head of the for loop: the tags of the next document are read, or the
\* list is returned.
NextDocument(r) ==
  IF r.userDocuments = <<>>
  THEN [r EXCEPT !.pc = "returned"]
  ELSE [r EXCEPT !.pc = "tags",
                 !.tags = GetTagsByDocumentId(Head(r.userDocuments).id)]

ResumeWithDocuments ==
  /\ reader.pc = "documents"
  /\ reader' = NextDocument(reader)
  /\ UNCHANGED <<tables, currentIds, now, ret, page, pending, upload, request>>

ResumeWithTags ==
  /\ reader.pc = "tags"
  /\ reader' =
       NextDocument([reader EXCEPT
         !.documentsWithTags =
            Append(@, Spread(Head(reader.userDocuments), [tags |-> reader.tags])),
         !.userDocuments = Tail(@)])
  /\ UNCHANGED <<tables, currentIds, now, ret, page, pending, upload, request>>

(***************************************************************************)
(* Calls made at the same time.  The body of an async method runs when the *)
(* method is called and up to its first await; the mutating methods have   *)
(* no await, so the call has done its work and holds its result when the   *)
(* caller gets control back.  The result waits for the caller to resume.   *)
(***************************************************************************)
\* The step is a call whose caller has not resumed yet.
Invoked(callers) ==
  /\ Len(pending) < callers
  /\ pending' = Append(pending, ret')
  /\ UNCHANGED <<reader, upload, request>>

\* The caller that has waited longest resumes with its result.
Resume ==
  /\ pending # <<>>
  /\ pending' = Tail(pending)
  /\ UNCHANGED <<tables, currentIds, now, ret, page, reader, upload, request>>

(***************************************************************************)
(* The other handlers of routes.ts.  A handler awaits every call of the    *)
(* store, so it is a sequence of steps; request holds the one in progress. *)
(***************************************************************************)
\* What reading a property gives when the object has none of that name.
undefined == "undefined"

\* const { f } = req.body
Field(body, f) == IF f \in DOMAIN body THEN body[f] ELSE undefined

\* No handler is between two of its steps.
Quiet == request.pc \in {"idle", "responded"}

\* The handler answers with a status and no row.
Refused(route, userId, id, status) ==
  [NoRequest EXCEPT !.route = route, !.pc = "responded", !.userId = userId,
                    !.id = id, !.status = status]

(***************************************************************************)
(* PUT /api/documents/:id.  The tags of the body are req.body.tags split   *)
(* at the commas, trimmed and without the empty names; a body whose tags   *)
(* hold no name stands for a body without tags.                            *)
(***************************************************************************)
BodyTags(body) == IF "tags" \in DOMAIN body THEN body.tags ELSE <<>>

\* getDocument and the two checks.
PutDocument(userId, id, body) ==
  /\ Quiet
  /\ request' =
       IF ~MapHas(documents, id)
       THEN Refused("PUT /api/documents/:id", userId, id, 404)
       ELSE IF documents[id].userId # userId
       THEN Refused("PUT /api/documents/:id", userId, id, 403)
       ELSE [NoRequest EXCEPT !.route = "PUT /api/documents/:id",
                              !.pc = "updateDocument", !.userId = userId,
                              !.id = id,
                              !.update = [title |-> Field(body, "title"),
                                          category |-> Field(body, "category"),
                                          summary |-> Field(body, "summary")],
                              !.newTagNames = BodyTags(body)]
  /\ UNCHANGED <<tables, currentIds, now, ret, page, pending, reader, upload>>

PutUpdateDocument ==
  /\ request.route = "PUT /api/documents/:id"
  /\ request.pc = "updateDocument"
  /\ UpdateDocument(request.id, request.update)
  /\ request' = [request EXCEPT
                   !.pc = IF request.newTagNames # <<>>
                          THEN "getTagsByDocumentId" ELSE "getDocumentWithTags"]
  /\ UNCHANGED <<pending, reader, upload>>

TagName(tag) == tag.name

\* What the handler does after a pass of the loop that adds: the next name,
\* or the loop that removes, or the answer.
AfterAdding(tagNames, removals) ==
  IF tagNames # <<>> THEN "getOrCreateTag"
  ELSE IF removals # <<>> THEN "removeTagFromDocument"
  ELSE "getDocumentWithTags"

\* The handler reads the current tags; the names it will add are those of
\* the body that no current tag carries, letter for letter, and the tags it
\* will remove are the current ones whose name is not in the body, letter
\* for letter.
PutGetTagsByDocumentId ==
  /\ request.route = "PUT /api/documents/:id"
  /\ request.pc = "getTagsByDocumentId"
  /\ \E currentTags \in {GetTagsByDocumentId(request.id)} :
       LET currentTagNames == ArrayMap(currentTags, TagName)
           IsNew(tagName) == ~Contains(currentTagNames, tagName)
           IsDropped(tag) == ~Contains(request.newTagNames, tag.name)
           tagNames == SelectSeq(request.newTagNames, IsNew)
           removals == SelectSeq(currentTags, IsDropped)
       IN request' = [request EXCEPT !.currentTags = currentTags,
                                     !.tagNames = tagNames,
                                     !.removals = removals,
                                     !.pc = AfterAdding(tagNames, removals)]
  /\ UNCHANGED <<tables, currentIds, now, ret, page, pending, reader, upload>>

PutGetOrCreateTag ==
  /\ request.route = "PUT /api/documents/:id"
  /\ request.pc = "getOrCreateTag"
  /\ GetOrCreateTag(Head(request.tagNames))
  /\ request' = [request EXCEPT !.pc = "addTagToDocument", !.tag = ret'.row]
  /\ UNCHANGED <<pending, reader, upload>>

PutAddTagToDocument ==
  /\ request.route = "PUT /api/documents/:id"
  /\ request.pc = "addTagToDocument"
  /\ AddTagToDocument(request.id, request.tag.id)
  /\ request' = [request EXCEPT
                   !.tagNames = Tail(@),
                   !.pc = AfterAdding(Tail(request.tagNames), request.removals)]
  /\ UNCHANGED <<pending, reader, upload>>

PutRemoveTagFromDocument ==
  /\ request.route = "PUT /api/documents/:id"
  /\ request.pc = "removeTagFromDocument"
  /\ RemoveTagFromDocument(request.id, Head(request.removals).id)
  /\ request' = [request EXCEPT
                   !.removals = Tail(@),
                   !.pc = IF Tail(request.removals) # <<>>
                          THEN "removeTagFromDocument"
                          ELSE "getDocumentWithTags"]
  /\ UNCHANGED <<pending, reader, upload>>

\* res.json(documentWithTags)
PutGetDocumentWithTags ==
  /\ request.route = "PUT /api/documents/:id"
  /\ request.pc = "getDocumentWithTags"
  /\ GetDocumentWithTags(request.id)
  /\ request' = [request EXCEPT !.pc = "responded", !.status = 200,
                                !.response = ret'.row]
  /\ UNCHANGED <<pending, reader, upload>>

(***************************************************************************)
(* PUT /api/ontologies/:id                                                 *)
(***************************************************************************)
\* getOntology and the two checks.
PutOntology(userId, id, body) ==
  /\ Quiet
  /\ request' =
       IF ~MapHas(ontologies, id)
       THEN Refused("PUT /api/ontologies/:id", userId, id, 404)
       ELSE IF ontologies[id].userId # userId
       THEN Refused("PUT /api/ontologies/:id", userId, id, 403)
       ELSE [NoRequest EXCEPT !.route = "PUT /api/ontologies/:id",
                              !.pc = "updateOntology", !.userId = userId,
                              !.id = id,
                              !.update = [name |-> Field(body, "name"),
                                          structure |-> Field(body, "structure")]]
  /\ UNCHANGED <<tables, currentIds, now, ret, page, pending, reader, upload>>

\* res.json(updatedOntology)
PutUpdateOntology ==
  /\ request.route = "PUT /api/ontologies/:id"
  /\ request.pc = "updateOntology"
  /\ UpdateOntology(request.id, request.update)
  /\ request' = [request EXCEPT !.pc = "responded", !.status = 200,
                                !.response = ret'.row]
  /\ UNCHANGED <<pending, reader, upload>>

(***************************************************************************)
(* PUT /api/priorities/:id/complete                                        *)
(***************************************************************************)
\* The handler makes one call, completePriority, and answers 404 when it
\* returns undefined.
PutPriorityComplete(userId, id, completed) ==
  /\ Quiet
  /\ CompletePriority(id, completed)
  /\ request' = [NoRequest EXCEPT !.route = "PUT /api/priorities/:id/complete",
                                  !.pc = "responded", !.userId = userId,
                                  !.id = id,
                                  !.status = IF ret'.ok THEN 200 ELSE 404,
                                  !.response = ret'.row]
  /\ UNCHANGED <<pending, reader, upload>>

(***************************************************************************)
(* POST /api/semantic-links                                                *)
(***************************************************************************)
\* The two getDocument calls and the checks.
PostSemanticLink(userId, linkSchema) ==
  /\ Quiet
  /\ request' =
       IF \/ ~MapHas(documents, linkSchema.sourceDocumentId)
          \/ ~MapHas(documents, linkSchema.targetDocumentId)
       THEN Refused("POST /api/semantic-links", userId, 0, 404)
       ELSE IF \/ documents[linkSchema.sourceDocumentId].userId # userId
               \/ documents[linkSchema.targetDocumentId].userId # userId
       THEN Refused("POST /api/semantic-links", userId, 0, 403)
       ELSE [NoRequest EXCEPT !.route = "POST /api/semantic-links",
                              !.pc = "createSemanticLink", !.userId = userId,
                              !.link = linkSchema]
  /\ UNCHANGED <<tables, currentIds, now, ret, page, pending, reader, upload>>

\* res.status(201).json(link)
PostCreateSemanticLink ==
  /\ request.route = "POST /api/semantic-links"
  /\ request.pc = "createSemanticLink"
  /\ CreateSemanticLink(request.link)
  /\ request' = [request EXCEPT !.pc = "responded", !.status = 201,
                                !.response = ret'.row]
  /\ UNCHANGED <<pending, reader, upload>>

(***************************************************************************)
(* POST /api/documents/:id/analyze-relationships.  The relationships are   *)
(* what the detector answers: an array parsed from the reply of a language *)
(* model, which the handler uses as it comes.                              *)
(***************************************************************************)
\* getDocument, the checks, the documents of the user and the detection.
PostAnalyzeRelationships(userId, id, relationships) ==
  /\ Quiet
  /\ request' =
       IF ~MapHas(documents, id)
       THEN Refused("POST /api/documents/:id/analyze-relationships", userId, id, 404)
       ELSE IF documents[id].userId # userId
       THEN Refused("POST /api/documents/:id/analyze-relationships", userId, id, 403)
       ELSE LET IsTarget(doc) == doc.id # id
                targetDocs == SelectSeq(GetDocumentsByUserId(userId), IsTarget)
                detected == IF Len(targetDocs) = 0 THEN <<>> ELSE relationships
            IN [NoRequest EXCEPT
                  !.route = "POST /api/documents/:id/analyze-relationships",
                  !.pc = IF detected # <<>> THEN "createSemanticLink"
                         ELSE "responded",
                  !.status = IF detected # <<>> THEN 0 ELSE 200,
                  !.userId = userId, !.id = id, !.relationships = detected]
  /\ UNCHANGED <<tables, currentIds, now, ret, page, pending, reader, upload>>

\* The body of the loop over the relationships.
PostAnalyzeCreateSemanticLink ==
  /\ request.route = "POST /api/documents/:id/analyze-relationships"
  /\ request.pc = "createSemanticLink"
  /\ LET rel == Head(request.relationships)
     IN CreateSemanticLink([sourceDocumentId |-> rel.sourceId,
                            targetDocumentId |-> rel.targetId,
                            linkType |-> rel.relationshipType,
                            strength |-> rel.strength])
  /\ request' = [request EXCEPT
                   !.relationships = Tail(@),
                   !.pc = IF Tail(request.relationships) # <<>>
                          THEN "createSemanticLink" ELSE "responded",
                   !.status = IF Tail(request.relationships) # <<>>
                              THEN 0 ELSE 200]
  /\ UNCHANGED <<pending, reader, upload>>

(***************************************************************************)
(* The calls the environment makes.  An id argument ranges over the ids    *)
(* handed out so far and the next one: a row that is present, one that was *)
(* deleted, and one that has never existed.                                *)
(***************************************************************************)
UserIdArgs == 1..currentIds.users

DocumentIdArgs == 1..currentIds.documents

TagIdArgs == 1..currentIds.tags

SemanticLinkIdArgs == 1..currentIds.semanticLinks

OntologyIdArgs == 1..currentIds.ontologies

PriorityIdArgs == 1..currentIds.priorities

InsertUsers == [username : UserNames, email : Emails]

InsertDocuments == [userId : {1}, title : {"a"}]

DocumentUpdates == {[title |-> "b"]}

InsertTags == [name : TagNames]

InsertSemanticLinks ==
  [sourceDocumentId : DocumentIdArgs, targetDocumentId : DocumentIdArgs,
   linkType : {"related"}, strength : {4}]

SemanticLinkUpdates == {[strength |-> 7]}

InsertOntologies == [userId : {1}, name : {<<"o">>}]

OntologyUpdates == {[name |-> <<"q">>]}

InsertPriorities == [userId : {1}, title : {"p"}, completed : {FALSE}]

PriorityUpdates == {[title |-> "q"]}

\* The number of ids handed out so far, all kinds together.
Issued ==
  (currentIds.users - 1) + (currentIds.documents - 1) + (currentIds.tags - 1)
  + (currentIds.documentTags - 1) + (currentIds.semanticLinks - 1)
  + (currentIds.ontologies - 1) + (currentIds.priorities - 1)

\* The step keeps the number of ids handed out within the budget.
Within(budget) == Issued' <= budget

\* The operations on documents, tags, join rows and links, with the Tag table
\* written through getOrCreateTag alone, as every caller in routes.ts does.
Next ==
  \/ \E d \in InsertDocuments : CreateDocument(d) /\ Within(MaxRows)
        /\ UNCHANGED requests
  \/ \E id \in DocumentIdArgs : DeleteDocument(id) /\ UNCHANGED requests
  \/ \E n \in TagNames : GetOrCreateTag(n) /\ Within(MaxRows)
        /\ UNCHANGED requests
  \/ \E d \in DocumentIdArgs, t \in TagIdArgs :
        AddTagToDocument(d, t) /\ Within(MaxRows) /\ UNCHANGED requests
  \/ \E d \in DocumentIdArgs, t \in TagIdArgs : RemoveTagFromDocument(d, t)
        /\ UNCHANGED requests
  \/ \E l \in InsertSemanticLinks : CreateSemanticLink(l) /\ Within(MaxRows)
        /\ UNCHANGED requests
  \/ \E id \in SemanticLinkIdArgs : DeleteSemanticLink(id) /\ UNCHANGED requests

Spec == Init /\ [][Next]_vars

\* Every operation of IStorage that changes the store, createTag included.
NextAll ==
  \/ \E u \in InsertUsers : CreateUser(u) /\ Within(MaxRowsAll)
        /\ UNCHANGED requests
  \/ \E d \in InsertDocuments : CreateDocument(d) /\ Within(MaxRowsAll)
        /\ UNCHANGED requests
  \/ \E id \in DocumentIdArgs, u \in DocumentUpdates : UpdateDocument(id, u)
        /\ UNCHANGED requests
  \/ \E id \in DocumentIdArgs : DeleteDocument(id) /\ UNCHANGED requests
  \/ \E t \in InsertTags : CreateTag(t) /\ Within(MaxRowsAll)
        /\ UNCHANGED requests
  \/ \E n \in TagNames : GetOrCreateTag(n) /\ Within(MaxRowsAll)
        /\ UNCHANGED requests
  \/ \E d \in DocumentIdArgs, t \in TagIdArgs :
        AddTagToDocument(d, t) /\ Within(MaxRowsAll) /\ UNCHANGED requests
  \/ \E d \in DocumentIdArgs, t \in TagIdArgs : RemoveTagFromDocument(d, t)
        /\ UNCHANGED requests
  \/ \E l \in InsertSemanticLinks : CreateSemanticLink(l) /\ Within(MaxRowsAll)
        /\ UNCHANGED requests
  \/ \E id \in SemanticLinkIdArgs, u \in SemanticLinkUpdates :
        UpdateSemanticLink(id, u) /\ UNCHANGED requests
  \/ \E id \in SemanticLinkIdArgs : DeleteSemanticLink(id) /\ UNCHANGED requests
  \/ \E o \in InsertOntologies : CreateOntology(o) /\ Within(MaxRowsAll)
        /\ UNCHANGED requests
  \/ \E id \in OntologyIdArgs, u \in OntologyUpdates : UpdateOntology(id, u)
        /\ UNCHANGED requests
  \/ \E id \in OntologyIdArgs : DeleteOntology(id) /\ UNCHANGED requests
  \/ \E p \in InsertPriorities : CreatePriority(p) /\ Within(MaxRowsAll)
        /\ UNCHANGED requests
  \/ \E id \in PriorityIdArgs, u \in PriorityUpdates : UpdatePriority(id, u)
        /\ UNCHANGED requests
  \/ \E id \in PriorityIdArgs, c \in BOOLEAN : CompletePriority(id, c)
        /\ UNCHANGED requests
  \/ \E id \in PriorityIdArgs : DeletePriority(id) /\ UNCHANGED requests

SpecAll == Init /\ [][NextAll]_vars

(***************************************************************************)
(* Cascade delete.                                                         *)
(***************************************************************************)
\* C1: right after deleteDocument(D) has returned, no DocumentTag row has
\* documentId = D, no SemanticLink row has D as its source or its target, and
\* getDocumentLinks(X) returns no link touching D for any document id X.
CascadeDelete ==
  ret.op = "deleteDocument" =>
    LET D == ret.args.id IN
      /\ \A k \in DOMAIN documentTags : documentTags[k].documentId # D
      /\ \A k \in DOMAIN semanticLinks :
            /\ semanticLinks[k].sourceDocumentId # D
            /\ semanticLinks[k].targetDocumentId # D
      /\ \A X \in DocumentIdArgs : \A l \in GetDocumentLinks(X) :
            l.sourceDocumentId # D /\ l.targetDocumentId # D

\* Document 1 has just been deleted, document 2 is still there, and the links
\* and join rows that were created are all gone.
CascadeDeleteWitness ==
  /\ ret.op = "deleteDocument" /\ ret.args.id = 1 /\ ret.ok
  /\ MapHas(documents, 2)
  /\ currentIds.semanticLinks > 1 /\ semanticLinks = EmptyMap
  /\ currentIds.documentTags > 1 /\ documentTags = EmptyMap
  /\ GetDocumentLinks(2) = {}

(***************************************************************************)
(* The de-duplicated view, over every sequence of collected rows.          *)
(***************************************************************************)
Strengths == {4, 7}

FetchedRows ==
  [sourceDocumentId : 1..MaxDocument, targetDocumentId : 1..MaxDocument,
   linkType : {"related"}, strength : Strengths]

\* The documents the page has fetched.
FetchedDocument(id) ==
  [id |-> id,
   title |-> IF id <= 5 THEN <<"A", "x">> ELSE <<"L">>,
   category |-> CASE id % 3 = 1 -> "paper" [] id % 3 = 2 -> "note" [] OTHER -> ""]

FetchedDocuments == [id \in 1..MaxDocument |-> FetchedDocument(id)]

SeqsUpTo(S, n) == UNION {[1..m -> S] : m \in 0..n}

InitGraph ==
  /\ users = EmptyMap
  /\ documents = EmptyMap
  /\ tags = EmptyMap
  /\ documentTags = EmptyMap
  /\ semanticLinks = EmptyMap
  /\ ontologies = EmptyMap
  /\ priorities = EmptyMap
  /\ currentIds = [users |-> 1, documents |-> 1, tags |-> 1, documentTags |-> 1,
                   semanticLinks |-> 1, ontologies |-> 1, priorities |-> 1]
  /\ now = 0
  /\ ret = Returned("constructor", [id |-> 0], TRUE, NoRow)
  /\ links \in SeqsUpTo(FetchedRows, MaxFetched)
  /\ allLinks = <<>>
  /\ pageDocuments = FetchedDocuments
  /\ FiltersAtLoad
  /\ OtherPagesAtLoad
  /\ NoRequests

NextGraph == QueryAllLinks

SpecGraph == InitGraph /\ [][NextGraph]_vars

Endpoints(link) == {link.sourceDocumentId, link.targetDocumentId}

Connecting(ls, pair) == {i \in DOMAIN ls : Endpoints(ls[i]) = pair}

\* The query has run: it leaves allLinks empty only when it collected nothing.
QueryHasRun == allLinks # <<>> \/ links = <<>>

\* C2: for every unordered pair of documents the de-duplicated list holds at
\* most one link between them, and exactly one when some collected row connects
\* them (in either direction), whose strength is the greatest strength among
\* those rows.
DedupKeepsMaxPerPair ==
  QueryHasRun =>
    \A A \in 1..MaxDocument, B \in 1..MaxDocument :
      LET collected == Connecting(links, {A, B})
          kept == Connecting(allLinks, {A, B})
      IN /\ Cardinality(kept) <= 1
         /\ collected # {} =>
              /\ Cardinality(kept) = 1
              /\ \A o \in kept :
                   /\ \E i \in collected : allLinks[o].strength = links[i].strength
                   /\ \A i \in collected : allLinks[o].strength >= links[i].strength

\* The rows 1->2 of strength 4 and 2->1 of strength 7 came out as one edge of
\* strength 7.
DedupKeepsMaxPerPairWitness ==
  /\ Len(links) = 2
  /\ links[1].sourceDocumentId = 1 /\ links[1].targetDocumentId = 2
  /\ links[1].strength = 4
  /\ links[2].sourceDocumentId = 2 /\ links[2].targetDocumentId = 1
  /\ links[2].strength = 7
  /\ Len(allLinks) = 1 /\ allLinks[1].strength = 7

(***************************************************************************)
(* Tags.                                                                   *)
(***************************************************************************)
SameLetters(a, b) == toLowerCase(a) = toLowerCase(b)

OneTagPerName ==
  \A j \in DOMAIN tags, k \in DOMAIN tags :
    SameLetters(tags[j].name, tags[k].name) => j = k

ResolvedTagIsStored ==
  ret.op = "getOrCreateTag" =>
    /\ ret.ok
    /\ MapHas(tags, ret.row.id)
    /\ tags[ret.row.id] = ret.row
    /\ SameLetters(ret.row.name, ret.args.name)

TagRowsNeverChange ==
  \A k \in DOMAIN tags : MapHas(tags', k) /\ tags'[k] = tags[k]

TagCreatedUnderGivenName ==
  \A k \in (DOMAIN tags') \ (DOMAIN tags) :
    /\ ret'.op = "getOrCreateTag"
    /\ ret'.row.id = k
    /\ tags'[k].name = ret'.args.name
    /\ \A j \in DOMAIN tags : ~SameLetters(tags[j].name, ret'.args.name)

\* C3: when the Tag table is written through getOrCreateTag alone, the calls
\* whose names differ only in letter case create one Tag row between them (the
\* first call does, under the name it was given), every call returns that row,
\* and no later call changes it.
GetOrCreateTagResolves ==
  /\ [](OneTagPerName /\ ResolvedTagIsStored)
  /\ [][TagRowsNeverChange /\ TagCreatedUnderGivenName]_vars

\* getOrCreateTag("re") has returned the tag stored as "Re".
GetOrCreateTagResolvesWitness ==
  /\ ret.op = "getOrCreateTag"
  /\ ret.args.name = <<"r", "e">>
  /\ ret.row.name = <<"R", "e">>
  /\ Cardinality(DOMAIN tags) = 1

\* C4: after any sequence of store operations, createTag included, no two rows
\* of the Tag table have names that are equal when letter case is ignored.
TagNameUniqueness ==
  \A j \in DOMAIN tags, k \in DOMAIN tags :
    j # k => toLowerCase(tags[j].name) # toLowerCase(tags[k].name)

(***************************************************************************)
(* Identity allocation.                                                    *)
(***************************************************************************)
Kinds == {"users", "documents", "tags", "documentTags", "semanticLinks",
          "ontologies", "priorities"}

Table(kind) ==
  CASE kind = "users" -> users
    [] kind = "documents" -> documents
    [] kind = "tags" -> tags
    [] kind = "documentTags" -> documentTags
    [] kind = "semanticLinks" -> semanticLinks
    [] kind = "ontologies" -> ontologies
    [] kind = "priorities" -> priorities

CountersStartAtOne == \A kind \in Kinds : currentIds[kind] = 1

IdsWereIssued ==
  \A kind \in Kinds : \A k \in DOMAIN Table(kind) :
    1 <= k /\ k < currentIds[kind]

NextIdIsIssued ==
  \A kind \in Kinds :
    LET old == DOMAIN Table(kind)
        new == DOMAIN Table(kind)'
        id == currentIds[kind]
    IN \/ /\ currentIds'[kind] = id
          /\ new \subseteq old
       \/ /\ currentIds'[kind] = id + 1
          /\ id \notin old
          /\ new = old \cup {id}
          /\ \A k \in old : Table(kind)'[k] = Table(kind)[k]
          /\ Table(kind)'[id].id = id
          /\ ret'.row = Table(kind)'[id]

\* C5: within each kind the create operations return the ids 1, 2, 3, ... in
\* this order: a new row is stored under the next id of its kind, which no row
\* holds or has held, beside the rows that were there, and a deleted row's id
\* is not handed out again.
IdentityAllocation ==
  /\ CountersStartAtOne
  /\ []IdsWereIssued
  /\ [][NextIdIsIssued]_vars

\* Document 1 was deleted and the document created after that got the id 2.
IdentityAllocationWitness ==
  /\ ret.op = "createDocument" /\ ret.row.id = 2
  /\ DOMAIN documents = {2}

(***************************************************************************)
(* Join rows.                                                              *)
(***************************************************************************)
NoDuplicatePairs ==
  \A j \in DOMAIN documentTags, k \in DOMAIN documentTags :
    (/\ documentTags[j].documentId = documentTags[k].documentId
     /\ documentTags[j].tagId = documentTags[k].tagId) => j = k

AddingAgainReturnsTheRow ==
  \A k \in DOMAIN documentTags :
    (/\ ret'.op = "addTagToDocument"
     /\ ret'.args.documentId = documentTags[k].documentId
     /\ ret'.args.tagId = documentTags[k].tagId)
    => /\ ret'.row = documentTags[k]
       /\ documentTags' = documentTags
       /\ currentIds' = currentIds

\* C6: the DocumentTag table never holds two rows with the same documentId and
\* tagId, and addTagToDocument(d, t) called when the row exists returns that
\* row, adds none and hands out no id.
AddTagIsIdempotent ==
  /\ []NoDuplicatePairs
  /\ [][AddingAgainReturnsTheRow]_vars

\* addTagToDocument has returned join row 1 after join row 2 had been created.
AddTagIsIdempotentWitness ==
  /\ ret.op = "addTagToDocument"
  /\ ret.row.id = 1
  /\ currentIds.documentTags = 3
  /\ MapHas(documentTags, 1) /\ MapHas(documentTags, 2)

(***************************************************************************)
(* Missing rows and dangling references.                                   *)
(***************************************************************************)
\* C7: deleteDocument(id) for an id that is not in the Document table returns
\* false and leaves every table as it was, the DocumentTag and SemanticLink
\* rows that carry this id included.
DeleteMissingDocumentIsNoOp ==
  [][(ret'.op = "deleteDocument" /\ ~MapHas(documents, ret'.args.id)) =>
       /\ ~ret'.ok
       /\ tables' = tables
       /\ currentIds' = currentIds]_vars

ReferencesExist ==
  /\ \A k \in DOMAIN semanticLinks :
       /\ MapHas(documents, semanticLinks[k].sourceDocumentId)
       /\ MapHas(documents, semanticLinks[k].targetDocumentId)
  /\ \A k \in DOMAIN documentTags :
       /\ MapHas(documents, documentTags[k].documentId)
       /\ MapHas(tags, documentTags[k].tagId)

InvalidReferenceIsRefused ==
  /\ (/\ ret'.op = "createSemanticLink"
      /\ \/ ~MapHas(documents, ret'.args.sourceDocumentId)
         \/ ~MapHas(documents, ret'.args.targetDocumentId))
     => ~ret'.ok /\ semanticLinks' = semanticLinks
  /\ (/\ ret'.op = "addTagToDocument"
      /\ \/ ~MapHas(documents, ret'.args.documentId)
         \/ ~MapHas(tags, ret'.args.tagId))
     => ~ret'.ok /\ documentTags' = documentTags

\* C8: createSemanticLink with an endpoint that is not in the Document table,
\* and addTagToDocument with a document or tag that is not in its table, fail
\* and create no row, so every SemanticLink and DocumentTag row references
\* existing documents and tags.
InvalidReferenceRejected ==
  /\ []ReferencesExist
  /\ [][InvalidReferenceIsRefused]_vars

UsersAreUnique ==
  \A j \in DOMAIN users, k \in DOMAIN users :
    j # k => /\ users[j].username # users[k].username
             /\ toLowerCase(users[j].email) # toLowerCase(users[k].email)

ConflictIsRefused ==
  (/\ ret'.op = "createUser"
   /\ \E k \in DOMAIN users :
        \/ users[k].username = ret'.args.username
        \/ toLowerCase(users[k].email) = toLowerCase(ret'.args.email))
  => ~ret'.ok /\ users' = users

\* C9: createUser with the username of an existing user, or with an email that
\* equals an existing one when letter case is ignored, fails and adds no row,
\* so usernames and emails are unique in the User table.
UserConflictRejected ==
  /\ []UsersAreUnique
  /\ [][ConflictIsRefused]_vars

UpdateOps == {"updateDocument", "updateSemanticLink", "updateOntology",
              "updatePriority", "completePriority"}

DeleteOps == {"deleteSemanticLink", "deleteOntology", "deletePriority"}

TableOf(op) ==
  CASE op = "updateDocument" -> documents
    [] op \in {"updateSemanticLink", "deleteSemanticLink"} -> semanticLinks
    [] op \in {"updateOntology", "deleteOntology"} -> ontologies
    [] op \in {"updatePriority", "completePriority", "deletePriority"} -> priorities

MissingIdIsReported ==
  /\ ret'.op \in UpdateOps /\ ~MapHas(TableOf(ret'.op), ret'.args.id) =>
       /\ ~ret'.ok /\ ret'.row = NoRow
       /\ tables' = tables /\ currentIds' = currentIds
  /\ ret'.op \in DeleteOps =>
       /\ ret'.ok = MapHas(TableOf(ret'.op), ret'.args.id)
       /\ ~MapHas(TableOf(ret'.op), ret'.args.id) =>
            tables' = tables /\ currentIds' = currentIds

\* C10: an update of an id that is not in its table returns undefined, a delete
\* returns true exactly when the row was there, and with the id missing no row
\* is created and no table or id counter changes.
NotFoundIsReported == [][MissingIdIsReported]_vars

\* updateSemanticLink has returned undefined for a missing id while another
\* link is stored.
NotFoundIsReportedWitness ==
  /\ ret.op = "updateSemanticLink" /\ ~ret.ok
  /\ ~MapHas(semanticLinks, ret.args.id)
  /\ semanticLinks # EmptyMap

(***************************************************************************)
(* Documents with their tags.                                              *)
(***************************************************************************)
\* The documents and their tags, written and read.
NextTags ==
  \/ \E d \in InsertDocuments : CreateDocument(d) /\ Within(MaxRows)
        /\ UNCHANGED requests
  \/ \E id \in DocumentIdArgs : DeleteDocument(id) /\ UNCHANGED requests
  \/ \E id \in DocumentIdArgs : GetDocumentWithTags(id) /\ UNCHANGED requests
  \/ \E n \in TagNames : GetOrCreateTag(n) /\ Within(MaxRows)
        /\ UNCHANGED requests
  \/ \E d \in DocumentIdArgs, t \in TagIdArgs :
        AddTagToDocument(d, t) /\ Within(MaxRows) /\ UNCHANGED requests
  \/ \E d \in DocumentIdArgs, t \in TagIdArgs : RemoveTagFromDocument(d, t)
        /\ UNCHANGED requests

SpecTags == Init /\ [][NextTags]_vars

JoinRowsOf(documentId) ==
  {k \in DOMAIN documentTags : documentTags[k].documentId = documentId}

\* The tags that exist and that a join row ties to the document.
JoinedTags(documentId) ==
  {documentTags[k].tagId : k \in JoinRowsOf(documentId)} \cap DOMAIN tags

\* C11: getDocumentWithTags(id) returns undefined when no Document row has
\* this id, never an aggregate; when the row is there it returns the fields of
\* the row with a list that holds each Tag a DocumentTag row joins to the
\* document once, and nothing else.
DocumentWithTagsIsWhole ==
  ret.op = "getDocumentWithTags" =>
    LET id == ret.args.id IN
      IF ~MapHas(documents, id)
      THEN ~ret.ok /\ ret.row = NoRow
      ELSE /\ ret.ok
           /\ DOMAIN ret.row = (DOMAIN documents[id]) \cup {"tags"}
           /\ \A f \in DOMAIN documents[id] : ret.row[f] = documents[id][f]
           /\ {ret.row.tags[i] : i \in DOMAIN ret.row.tags}
                = {tags[t] : t \in JoinedTags(id)}
           /\ Len(ret.row.tags) = Cardinality(JoinedTags(id))

\* getDocumentWithTags has returned document 1 with its one tag, while a
\* second join row of the document names a tag that does not exist.
DocumentWithTagsIsWholeWitness ==
  /\ ret.op = "getDocumentWithTags" /\ ret.ok /\ ret.args.id = 1
  /\ Len(ret.row.tags) = 1
  /\ Cardinality(JoinRowsOf(1)) = 2

MatchingJoinRows(documentId, tagId) ==
  {k \in DOMAIN documentTags :
     documentTags[k].documentId = documentId /\ documentTags[k].tagId = tagId}

RemovesTheOneRow ==
  ret'.op = "removeTagFromDocument" =>
    LET matching == MatchingJoinRows(ret'.args.documentId, ret'.args.tagId) IN
      /\ ret'.ok = (matching # {})
      /\ matching # {} =>
            /\ Cardinality(matching) = 1
            /\ DOMAIN documentTags' = (DOMAIN documentTags) \ matching
      /\ matching = {} => documentTags' = documentTags
      /\ \A k \in DOMAIN documentTags' : documentTags'[k] = documentTags[k]
      /\ tags' = tags /\ documents' = documents
      /\ users' = users /\ semanticLinks' = semanticLinks
      /\ ontologies' = ontologies /\ priorities' = priorities
      /\ currentIds' = currentIds

\* C13: removeTagFromDocument(d, t) returns true and removes the one
\* DocumentTag row with documentId d and tagId t when there is one, returns
\* false and leaves the DocumentTag table as it was when there is none, and
\* either way changes no other join row and no other table.
RemoveTagFromDocumentRemovesOne == [][RemovesTheOneRow]_vars

\* removeTagFromDocument(1, 1) has returned true and the other join row of
\* document 1 is still there.
RemoveTagFromDocumentRemovesOneWitness ==
  /\ ret.op = "removeTagFromDocument" /\ ret.ok
  /\ ret.args.documentId = 1 /\ ret.args.tagId = 1
  /\ MatchingJoinRows(1, 1) = {}
  /\ MatchingJoinRows(1, 2) # {}

(***************************************************************************)
(* The tags of an uploaded document.                                       *)
(***************************************************************************)
\* The ids handed out stay within MaxRowsUpload, whatever the request does.
MaxRowsUpload == 8

\* A request names at most MaxTagNames tags.
MaxTagNames == 3

UserTagLists == SeqsUpTo(TagNames \cup {<<>>}, MaxTagNames)

NextUpload ==
  \/ \E d \in InsertDocuments, userTags \in UserTagLists :
        /\ Issued + 1 + 2 * Len(userTags) <= MaxRowsUpload
        /\ UploadDocument(d, userTags)
  \/ UploadSkipEmptyName
  \/ UploadGetOrCreateTag
  \/ UploadAddTagToDocument
  \/ UploadRespond

SpecUpload == Init /\ [][NextUpload]_vars

NotEmpty(name) == name # <<>>

\* The names of a list that no earlier name of the list equals when letter
\* case is ignored.
FirstSpellings(names) ==
  LET IsFirst(i) == \A j \in 1..(i - 1) : ~SameLetters(names[j], names[i])
      firsts == SelectSeq([i \in DOMAIN names |-> i], IsFirst)
  IN [k \in DOMAIN firsts |-> names[firsts[k]]]

\* C12: the upload request that attaches a list of tag names with
\* getOrCreateTag and addTagToDocument answers with one tag for each name of
\* the list, names that differ only in letter case counting once: the tag is
\* the stored row, and a tag the request created has the spelling of the first
\* such name in the list.  So "Research", "research", "ML" on a store without
\* tags gives the two tags "Research" and "ML".
TagRoundTrip ==
  upload.pc = "responded" =>
    LET firsts == FirstSpellings(SelectSeq(upload.given, NotEmpty))
        got == upload.documentWithTags.tags
    IN /\ Len(got) = Len(firsts)
       /\ \A i \in DOMAIN got :
            /\ SameLetters(got[i].name, firsts[i])
            /\ MapHas(tags, got[i].id) /\ tags[got[i].id] = got[i]
            /\ got[i].id >= upload.firstTagId => got[i].name = firsts[i]

\* The request with the names "Re", "re", "ML" on a store without tags has
\* answered with the tags "Re" and "ML".
TagRoundTripWitness ==
  /\ upload.pc = "responded"
  /\ upload.given = << <<"R", "e">>, <<"r", "e">>, <<"M", "L">> >>
  /\ upload.firstTagId = 1
  /\ Len(upload.documentWithTags.tags) = 2
  /\ upload.documentWithTags.tags[1].name = <<"R", "e">>
  /\ upload.documentWithTags.tags[2].name = <<"M", "L">>

(***************************************************************************)
(* The strength of a link.                                                 *)
(***************************************************************************)
\* What insertSemanticLinkSchema lets through: the strength is any integer,
\* or is left out.
PostedSemanticLinks ==
  [sourceDocumentId : DocumentIdArgs, targetDocumentId : DocumentIdArgs,
   linkType : {"related"}, strength : {0, 4}]
  \cup [sourceDocumentId : DocumentIdArgs, targetDocumentId : DocumentIdArgs,
        linkType : {"related"}]

PostedLinkUpdates == {[strength |-> 0], [strength |-> 7]}

NextLinks ==
  \/ \E d \in InsertDocuments : CreateDocument(d) /\ Within(MaxRowsAll)
        /\ UNCHANGED requests
  \/ \E l \in PostedSemanticLinks : CreateSemanticLink(l) /\ Within(MaxRowsAll)
        /\ UNCHANGED requests
  \/ \E id \in SemanticLinkIdArgs, u \in PostedLinkUpdates :
        UpdateSemanticLink(id, u) /\ UNCHANGED requests
  \/ \E id \in SemanticLinkIdArgs : DeleteSemanticLink(id) /\ UNCHANGED requests

SpecLinks == Init /\ [][NextLinks]_vars

HasPositiveStrength(link) ==
  /\ "strength" \in DOMAIN link
  /\ link.strength \in Nat \ {0}

StrengthIsPositive ==
  \A k \in DOMAIN semanticLinks : HasPositiveStrength(semanticLinks[k])

StrengthDefaultsToOne ==
  (ret'.op = "createSemanticLink" /\ "strength" \notin DOMAIN ret'.args) =>
    /\ "strength" \in DOMAIN semanticLinks'[ret'.row.id]
    /\ semanticLinks'[ret'.row.id].strength = 1

UpdateKeepsStrengthPositive ==
  (ret'.op = "updateSemanticLink" /\ ret'.ok) =>
    HasPositiveStrength(semanticLinks'[ret'.args.id])

\* C14: every stored SemanticLink has a strength, which is a positive
\* integer; createSemanticLink without a strength stores the strength 1, and
\* updateSemanticLink leaves the link with a positive strength.
StrengthInvariant ==
  /\ []StrengthIsPositive
  /\ [][StrengthDefaultsToOne /\ UpdateKeepsStrengthPositive]_vars

(***************************************************************************)
(* Calls made at the same time.                                            *)
(***************************************************************************)
\* At most MaxCallers callers wait for the result of their call.
MaxCallers == 2

NextCalls ==
  \/ \E d \in InsertDocuments :
        CreateDocument(d) /\ Within(MaxRowsAll) /\ Invoked(MaxCallers)
  \/ \E id \in DocumentIdArgs : DeleteDocument(id) /\ Invoked(MaxCallers)
  \/ \E t \in InsertTags :
        CreateTag(t) /\ Within(MaxRowsAll) /\ Invoked(MaxCallers)
  \/ \E n \in TagNames :
        GetOrCreateTag(n) /\ Within(MaxRowsAll) /\ Invoked(MaxCallers)
  \/ \E d \in DocumentIdArgs, t \in TagIdArgs :
        AddTagToDocument(d, t) /\ Within(MaxRowsAll) /\ Invoked(MaxCallers)
  \/ \E d \in DocumentIdArgs, t \in TagIdArgs :
        RemoveTagFromDocument(d, t) /\ Invoked(MaxCallers)
  \/ \E l \in InsertSemanticLinks :
        CreateSemanticLink(l) /\ Within(MaxRowsAll) /\ Invoked(MaxCallers)
  \/ Resume

SpecCalls == Init /\ [][NextCalls]_vars

CreateOps == {"createUser", "createDocument", "createTag", "createSemanticLink",
              "createOntology", "createPriority"}

\* No call between the two has removed join rows.
NoRemovalBetween(i, j) ==
  \A k \in (i + 1)..(j - 1) :
    pending[k].op \notin {"removeTagFromDocument", "deleteDocument"}

\* C15: the calls that are in progress at the same time have the results of
\* running them one after the other: two getOrCreateTag calls whose names
\* differ only in letter case return the same Tag row, two addTagToDocument
\* calls for the same pair return the same join row (unless a call between
\* them removed it), and two calls of the same create operation return
\* different ids.
ConcurrentCallsAreSerial ==
  \A i \in DOMAIN pending, j \in DOMAIN pending :
    i < j =>
      /\ (/\ pending[i].op = "getOrCreateTag" /\ pending[j].op = "getOrCreateTag"
          /\ SameLetters(pending[i].args.name, pending[j].args.name))
         => pending[i].row = pending[j].row
      /\ (/\ pending[i].op = "addTagToDocument"
          /\ pending[j].op = "addTagToDocument"
          /\ pending[i].args = pending[j].args
          /\ NoRemovalBetween(i, j))
         => pending[i].row = pending[j].row
      /\ (pending[i].op \in CreateOps /\ pending[i].op = pending[j].op)
         => pending[i].row.id # pending[j].row.id

\* Two getOrCreateTag calls, for "Re" and for "re", are in progress and both
\* have the one Tag row as their result.
ConcurrentCallsAreSerialWitness ==
  /\ Len(pending) = 2
  /\ pending[1].op = "getOrCreateTag" /\ pending[1].args.name = <<"R", "e">>
  /\ pending[2].op = "getOrCreateTag" /\ pending[2].args.name = <<"r", "e">>
  /\ pending[1].row = pending[2].row
  /\ Cardinality(DOMAIN tags) = 1

(***************************************************************************)
(* getUserDocumentsWithTags among the calls of other requests, which run   *)
(* while it is suspended.                                                  *)
(***************************************************************************)
NextReader ==
  \/ \E d \in InsertDocuments : CreateDocument(d) /\ Within(MaxRows)
        /\ UNCHANGED requests
  \/ \E id \in DocumentIdArgs : DeleteDocument(id) /\ UNCHANGED requests
  \/ \E n \in TagNames : GetOrCreateTag(n) /\ Within(MaxRows)
        /\ UNCHANGED requests
  \/ \E d \in DocumentIdArgs, t \in TagIdArgs :
        AddTagToDocument(d, t) /\ Within(MaxRows) /\ UNCHANGED requests
  \/ \E d \in DocumentIdArgs, t \in TagIdArgs : RemoveTagFromDocument(d, t)
        /\ UNCHANGED requests
  \/ \E u \in UserIdArgs : GetUserDocumentsWithTags(u)
  \/ ResumeWithDocuments
  \/ ResumeWithTags

SpecReader == Init /\ [][NextReader]_vars

\* The call reads the tags of a document that is in the Document table.
TagsReadOfStoredDocument ==
  (reader'.pc = "tags" /\ reader' # reader) =>
    MapHas(documents', Head(reader'.userDocuments).id)

\* C16: getUserDocumentsWithTags(U), with the calls of other requests running
\* while it is suspended, reads the tags of each document in a state in which
\* the document exists, so each aggregate is the document with the tags of one
\* state, and no document deleted during the call is returned with the tags
\* that were left of it.
ReadsAreConsistent == [][TagsReadOfStoredDocument]_vars

(***************************************************************************)
(* The order of the cascade.                                               *)
(***************************************************************************)
\* No join row and no link of the stored tables references the document.
Unreferenced(stored, D) ==
  /\ \A k \in DOMAIN stored.documentTags : stored.documentTags[k].documentId # D
  /\ \A k \in DOMAIN stored.semanticLinks :
       /\ stored.semanticLinks[k].sourceDocumentId # D
       /\ stored.semanticLinks[k].targetDocumentId # D

CascadeInOrder ==
  (ret'.op = "deleteDocument" /\ MapHas(documents, ret'.args.id)) =>
    LET D == ret'.args.id IN
    \A steps \in {DeleteDocumentSteps(D)} :
       /\ steps[1].semanticLinks = semanticLinks
       /\ steps[1].documents = documents
       /\ \A k \in DOMAIN steps[1].documentTags :
            steps[1].documentTags[k].documentId # D
       /\ steps[2].documentTags = steps[1].documentTags
       /\ steps[2].documents = documents
       /\ Unreferenced(steps[2], D)
       /\ steps[3].documentTags = steps[2].documentTags
       /\ steps[3].semanticLinks = steps[2].semanticLinks
       /\ ~MapHas(steps[3].documents, D)
       /\ \A i \in 1..3 : ~MapHas(steps[i].documents, D) => Unreferenced(steps[i], D)
       /\ documentTags' = steps[3].documentTags
       /\ semanticLinks' = steps[3].semanticLinks
       /\ documents' = steps[3].documents

\* What a read sees of document D after a deleteDocument(D) that found it.
DeletedDocumentIsUnreferenced ==
  (ret.op = "deleteDocument" /\ ret.ok) =>
    /\ ~MapHas(documents, ret.args.id)
    /\ Unreferenced([documentTags |-> documentTags,
                     semanticLinks |-> semanticLinks], ret.args.id)
    /\ GetTagsByDocumentId(ret.args.id) = <<>>
    /\ GetDocumentLinks(ret.args.id) = {}

\* C17: deleteDocument(D) of a stored document removes the join rows of D,
\* then the links that touch D, then the Document row; the tables it passes
\* through and the tables it leaves never hold a row that references D while
\* the Document row is gone, and it does not suspend, so a read sees the
\* tables before the call or those it leaves.
CascadeOrdering ==
  /\ [][CascadeInOrder]_vars
  /\ []DeletedDocumentIsUnreferenced

\* deleteDocument(1) has removed document 1 with its join row and its link.
CascadeOrderingWitness ==
  /\ ret.op = "deleteDocument" /\ ret.ok /\ ret.args.id = 1
  /\ currentIds.documentTags = 2 /\ documentTags = EmptyMap
  /\ currentIds.semanticLinks = 2 /\ semanticLinks = EmptyMap
  /\ documents = EmptyMap

(***************************************************************************)
(* Links of the same strength.                                             *)
(***************************************************************************)
\* The collected rows between the pair that no row between the pair exceeds.
Strongest(pair) ==
  {i \in Connecting(links, pair) :
     \A j \in Connecting(links, pair) : links[i].strength >= links[j].strength}

\* C18: of the collected rows that connect a pair of documents the query
\* keeps the first, in the order they were collected, of those with the
\* greatest strength: a later row of the same strength does not replace it.
DedupKeepsFirstOfStrongest ==
  QueryHasRun =>
    \A A \in 1..MaxDocument, B \in 1..MaxDocument :
      Connecting(links, {A, B}) # {} =>
        \E o \in Connecting(allLinks, {A, B}) :
          allLinks[o] = links[SetMin(Strongest({A, B}))]

\* The row 1->2 of strength 4 and then the rows 2->1 and 1->2, both of
\* strength 7, came out as the edge 2->1.
DedupKeepsFirstOfStrongestWitness ==
  /\ Len(links) = 3
  /\ links[1].sourceDocumentId = 1 /\ links[1].targetDocumentId = 2
  /\ links[1].strength = 4
  /\ links[2].sourceDocumentId = 2 /\ links[2].targetDocumentId = 1
  /\ links[2].strength = 7
  /\ links[3].sourceDocumentId = 1 /\ links[3].targetDocumentId = 2
  /\ links[3].strength = 7
  /\ Len(allLinks) = 1
  /\ allLinks[1].sourceDocumentId = 2 /\ allLinks[1].strength = 7

(***************************************************************************)
(* The graph of the semantic-network page, over every sequence of          *)
(* collected rows and every setting of the filters.                        *)
(***************************************************************************)
\* The least value of the slider of maxNodes.
LeastMaxNodes == 10

\* The page collects at most MaxViewed link rows, between the first document
\* and the document that the least node limit cuts off.
MaxViewed == 2

LinkedDocuments == {1, LeastMaxNodes + 1}

ViewDocuments == [id \in 1..(LeastMaxNodes + 1) |-> FetchedDocument(id)]

ViewRows ==
  [sourceDocumentId : LinkedDocuments, targetDocumentId : LinkedDocuments,
   linkType : {"related"}, strength : Strengths]

SearchQueries == {<<>>, <<"a">>}

SelectedCategories == {"all", "paper"}

LinkTypes == {"related"}

MinStrengths == {1, 5, 8}

MaxNodesValues == {10, 50}

InitView ==
  /\ users = EmptyMap
  /\ documents = EmptyMap
  /\ tags = EmptyMap
  /\ documentTags = EmptyMap
  /\ semanticLinks = EmptyMap
  /\ ontologies = EmptyMap
  /\ priorities = EmptyMap
  /\ currentIds = [users |-> 1, documents |-> 1, tags |-> 1, documentTags |-> 1,
                   semanticLinks |-> 1, ontologies |-> 1, priorities |-> 1]
  /\ now = 0
  /\ ret = Returned("constructor", [id |-> 0], TRUE, NoRow)
  /\ links \in SeqsUpTo(ViewRows, MaxViewed)
  /\ allLinks = <<>>
  /\ pageDocuments = ViewDocuments
  /\ FiltersAtLoad
  /\ OtherPagesAtLoad
  /\ NoRequests

NextView ==
  \/ QueryAllLinks
  \/ \E query \in SearchQueries : SetSearchQuery(query)
  \/ \E value \in SelectedCategories : SetSelectedCategory(value)
  \/ \E type \in LinkTypes : handleLinkTypeToggle(type)
  \/ \E value \in MinStrengths : SetMinStrength(value)
  \/ \E value \in MaxNodesValues : SetMaxNodes(value)

SpecView == InitView /\ [][NextView]_vars

\* The ids of the documents of a list.
IdsOf(docs) == {docs[i].id : i \in DOMAIN docs}

\* The edges of a list that connect the pair of documents.
EdgesBetween(edges, A, B) ==
  {e \in DOMAIN edges :
     {edges[e].source, edges[e].target} = {ToString(A), ToString(B)}}

EdgesOf(ls) == ArrayMap(RemoveDuplicates(ls), GraphLink)

\* C19: every edge the page draws has its source and its target among the
\* documents it draws, those left by the search, the category and the node
\* limit, so a link with an endpoint outside is not drawn; and the edge drawn
\* for a pair of such documents is the one that represents the pair when the
\* duplicates are removed from the links between such documents alone.
EdgesStayAmongNodes ==
  \A docs \in {limitedDocuments}, edges \in {graphLinks} :
    LET Inside(link) ==
          /\ link.sourceDocumentId \in IdsOf(docs)
          /\ link.targetDocumentId \in IdsOf(docs)
    IN \A representatives \in {EdgesOf(SelectSeq(links, Inside))} :
         \A e \in DOMAIN edges :
           /\ \E A \in IdsOf(docs) : edges[e].source = ToString(A)
           /\ \E B \in IdsOf(docs) : edges[e].target = ToString(B)
           /\ \E r \in DOMAIN representatives : representatives[r] = edges[e]

\* With the node limit at 10 the link of document 1 to itself is drawn and
\* the link between documents 1 and 11 is not.
EdgesStayAmongNodesWitness ==
  /\ maxNodes = 10 /\ searchQuery = <<>> /\ selectedCategory = "all"
  /\ minStrength = 1
  /\ Len(allLinks) = 2
  /\ Endpoints(allLinks[1]) = {1, LeastMaxNodes + 1}
  /\ Endpoints(allLinks[2]) = {1}
  /\ Len(graphLinks) = 1
  /\ graphLinks[1].source = "1" /\ graphLinks[1].target = "1"

\* No collected row has a type the type filter leaves out.
NoTypeLeftOut ==
  \A i \in DOMAIN links :
    Len(linkTypeFilter) = 0 \/ Contains(linkTypeFilter, links[i].linkType)

\* C20: once the query has run, and with no link type left out, a pair of
\* documents the page draws has an edge exactly when the greatest strength of
\* the collected rows between them is at least minStrength, and the edge has
\* that strength; with minStrength above the strength of every row no edge is
\* drawn.
MinStrengthAfterDedup ==
  (QueryHasRun /\ NoTypeLeftOut) =>
    \A docs \in {limitedDocuments}, edges \in {graphLinks} :
      /\ \A A \in IdsOf(docs), B \in IdsOf(docs) :
           LET collected == Connecting(links, {A, B})
               drawn == EdgesBetween(edges, A, B)
           IN /\ drawn # {} <=>
                   \E i \in collected : links[i].strength >= minStrength
              /\ \A e \in drawn :
                   /\ \E i \in collected : edges[e].strength = links[i].strength
                   /\ \A i \in collected : edges[e].strength >= links[i].strength
      /\ (\A i \in DOMAIN links : links[i].strength < minStrength) => edges = <<>>

\* With minStrength at 5 the rows of strength 4 and 7 between documents 1 and
\* 11 are drawn as one edge of strength 7.
MinStrengthAfterDedupWitness ==
  /\ minStrength = 5
  /\ Len(links) = 2
  /\ Endpoints(links[1]) = {1, LeastMaxNodes + 1} /\ links[1].strength = 4
  /\ Endpoints(links[2]) = {1, LeastMaxNodes + 1} /\ links[2].strength = 7
  /\ Len(graphLinks) = 1 /\ graphLinks[1].strength = 7

(***************************************************************************)
(* The graphs of the three pages, over a store with documents of two users *)
(* and every sequence of created links.                                    *)
(***************************************************************************)
\* The store holds at most MaxStored links.
MaxStored == 2

\* Documents 1 and 2 belong to user 1, document 3 to user 2.
StoredDocuments ==
  [id \in 1..3 |->
     Spread(FetchedDocument(id),
            [userId |-> IF id <= 2 THEN 1 ELSE 2,
             createdAt |-> 0, updatedAt |-> 0])]

StoredUsers ==
  [id \in 1..2 |->
     [id |-> id,
      username |-> IF id = 1 THEN <<"a", "l">> ELSE <<"b">>,
      email |-> IF id = 1 THEN <<"a", "@", "x">> ELSE <<"b", "@", "x">>]]

StoredRows ==
  [sourceDocumentId : 1..3, targetDocumentId : 1..3,
   linkType : {"related"}, strength : {4}]

\* The rows as createSemanticLink has stored them, one call after the other.
StoredLinks(rows) == [id \in DOMAIN rows |-> Spread(rows[id], [id |-> id])]

\* The user who is signed in.
SignedIn == {1}

InitPages ==
  /\ users = StoredUsers
  /\ documents = StoredDocuments
  /\ tags = EmptyMap
  /\ documentTags = EmptyMap
  /\ \E rows \in SeqsUpTo(StoredRows, MaxStored) :
       /\ semanticLinks = StoredLinks(rows)
       /\ currentIds = [users |-> 3, documents |-> 4, tags |-> 1,
                        documentTags |-> 1, semanticLinks |-> Len(rows) + 1,
                        ontologies |-> 1, priorities |-> 1]
  /\ ontologies = EmptyMap
  /\ priorities = EmptyMap
  /\ now = 0
  /\ ret = Returned("constructor", [id |-> 0], TRUE, NoRow)
  /\ links = <<>>
  /\ allLinks = <<>>
  /\ pageDocuments = <<>>
  /\ FiltersAtLoad
  /\ OtherPagesAtLoad
  /\ NoRequests

NextPages ==
  \/ \E u \in SignedIn : QueryDocuments(u)
  \/ \E u \in SignedIn : FetchAllLinks(u)
  \/ \E u \in SignedIn : QueryDashboardLinks(u)
  \/ \E id \in DocumentIdArgs : OpenDocumentDetail(id)
  \/ \E u \in SignedIn : QueryDocument(u)
  \/ \E u \in SignedIn : QueryDocumentLinks(u)

SpecPages == InitPages /\ [][NextPages]_vars

\* No two edges of the list connect the same unordered pair.
OneEdgePerPair(edges) ==
  \A e \in DOMAIN edges, f \in DOMAIN edges :
    {edges[e].source, edges[e].target} = {edges[f].source, edges[f].target}
      => e = f

\* C21: the edges the semantic-network page, the dashboard and the document
\* page hand to the graph component hold at most one edge per unordered pair
\* of documents.
OneEdgePerPairEverywhere ==
  /\ OneEdgePerPair(graphLinks)
  /\ OneEdgePerPair(dashboardGraphLinks)
  /\ OneEdgePerPair(networkLinks)

\* The ids of the nodes are pairwise distinct and every edge runs between two
\* of the nodes.
WellFormed(nodes, edges) ==
  /\ \A m \in DOMAIN nodes, n \in DOMAIN nodes : nodes[m].id = nodes[n].id => m = n
  /\ \A e \in DOMAIN edges :
       /\ \E n \in DOMAIN nodes : nodes[n].id = edges[e].source
       /\ \E n \in DOMAIN nodes : nodes[n].id = edges[e].target

\* C28: in the graph of each of the three pages, once the documents of the
\* user are there, the node ids are pairwise distinct and the source and the
\* target of every edge are ids of nodes of the same graph.
GraphsAreWellFormed ==
  Len(pageDocuments) > 0 =>
    /\ WellFormed(graphNodes, graphLinks)
    /\ WellFormed(dashboardGraphNodes, dashboardGraphLinks)
    /\ WellFormed(networkNodes, networkLinks)

(***************************************************************************)
(* Timestamps, with the clock moving between the calls.                    *)
(***************************************************************************)
\* Payloads with and without a stale updatedAt.
TimedDocumentUpdates == {[title |-> "b"], [title |-> "b", updatedAt |-> 0]}

TimedOntologyUpdates == {[name |-> <<"q">>], [updatedAt |-> 0]}

NextClock ==
  \/ \E d \in InsertDocuments : CreateDocument(d) /\ Within(MaxRowsAll)
        /\ UNCHANGED requests
  \/ \E id \in DocumentIdArgs, u \in TimedDocumentUpdates : UpdateDocument(id, u)
        /\ UNCHANGED requests
  \/ \E o \in InsertOntologies : CreateOntology(o) /\ Within(MaxRowsAll)
        /\ UNCHANGED requests
  \/ \E id \in OntologyIdArgs, u \in TimedOntologyUpdates : UpdateOntology(id, u)
        /\ UNCHANGED requests
  \/ Tick

SpecClock == Init /\ [][NextClock]_vars

\* A step that leaves the clock alone is a call of the store, the one that
\* ret' records: a create stores its row with both timestamps at the time of
\* the call, an update of a stored row stores it with updatedAt at that time.
WritesAreStamped ==
  LET written == IF ret'.op \in {"createDocument", "updateDocument"}
                 THEN documents' ELSE ontologies'
  IN
  now' = now =>
    /\ ret'.op \in {"createDocument", "createOntology"} =>
         /\ ret'.row.createdAt = now /\ ret'.row.updatedAt = now
         /\ written[ret'.row.id] = ret'.row
    /\ (ret'.op \in {"updateDocument", "updateOntology"} /\ ret'.ok) =>
         /\ ret'.row.updatedAt = now
         /\ written[ret'.args.id] = ret'.row

UpdatedAtNeverDecreases ==
  /\ \A k \in (DOMAIN documents) \cap (DOMAIN documents') :
       documents'[k].updatedAt >= documents[k].updatedAt
  /\ \A k \in (DOMAIN ontologies) \cap (DOMAIN ontologies') :
       ontologies'[k].updatedAt >= ontologies[k].updatedAt

\* C22: createDocument and createOntology set createdAt and updatedAt to the
\* time of the call; updateDocument and updateOntology on a stored row set
\* updatedAt to the time of the call whatever updatedAt the payload carries;
\* and no step lowers the updatedAt of a stored row.
Timestamps == [][WritesAreStamped /\ UpdatedAtNeverDecreases]_vars

\* Document 1, created at time 0, has just been updated at time 2 with a
\* payload whose updatedAt is 0.
TimestampsWitness ==
  /\ ret.op = "updateDocument" /\ ret.ok /\ ret.args.id = 1
  /\ ret.args.update = [title |-> "b", updatedAt |-> 0]
  /\ now = 2
  /\ documents[1].createdAt = 0 /\ documents[1].updatedAt = 2

(***************************************************************************)
(* The recent documents of the dashboard, over documents created and       *)
(* updated at different times.                                             *)
(***************************************************************************)
NextRecent ==
  \/ \E d \in InsertDocuments : CreateDocument(d) /\ Within(MaxRowsAll)
        /\ UNCHANGED requests
  \/ \E id \in DocumentIdArgs, u \in DocumentUpdates : UpdateDocument(id, u)
        /\ UNCHANGED requests
  \/ Tick
  \/ \E u \in SignedIn : QueryDocuments(u)

SpecRecent == Init /\ [][NextRecent]_vars

\* The first rows of the list are in descending order of updatedAt and no row
\* after them has a greater updatedAt.
MostRecentFirst(all, shown) ==
  /\ \A i \in DOMAIN shown, j \in DOMAIN shown :
       i < j => shown[i].updatedAt >= shown[j].updatedAt
  /\ \A i \in DOMAIN shown, j \in DOMAIN all :
       j > Len(shown) => shown[i].updatedAt >= all[j].updatedAt

\* C23: the list of recent documents and the documents of recentDocIds are
\* those of the fetched documents with the greatest updatedAt, in descending
\* order of updatedAt.
RecentDocumentsAreMostRecent ==
  /\ MostRecentFirst(pageDocuments, recentDocuments)
  /\ MostRecentFirst(pageDocuments, SliceFromStart(pageDocuments, 10))

(***************************************************************************)
(* Updates through PUT /api/documents/:id and PUT /api/ontologies/:id,     *)
(* one request at a time.                                                  *)
(***************************************************************************)
\* The creates and the handlers hand out at most MaxRowsPut ids.
MaxRowsPut == 3

\* The tags of a body hold at most MaxPutNames names.
MaxPutNames == 1

PutInsertDocuments ==
  [userId : SignedIn, title : {"a"}, category : {"paper"}, summary : {"s"}]

PutInsertOntologies == [userId : SignedIn, name : {"o"}, structure : {"s"}]

PutTagLists == SeqsUpTo(TagNames, MaxPutNames) \ {<<>>}

DocumentBodies ==
  {[title |-> "b"], [category |-> "note"],
   [title |-> "b", category |-> "note", summary |-> "t"]}
  \cup {[title |-> "b", tags |-> names] : names \in PutTagLists}

OntologyBodies ==
  {[name |-> "q"], [structure |-> "t"], [name |-> "q", structure |-> "t"]}

NextPut ==
  \/ \E d \in PutInsertDocuments :
        /\ Quiet
        /\ CreateDocument(d) /\ Within(MaxRowsPut) /\ UNCHANGED requests
  \/ \E o \in PutInsertOntologies :
        /\ Quiet
        /\ CreateOntology(o) /\ Within(MaxRowsPut) /\ UNCHANGED requests
  \/ \E u \in SignedIn, id \in DocumentIdArgs, body \in DocumentBodies :
        PutDocument(u, id, body)
  \/ PutUpdateDocument
  \/ PutGetTagsByDocumentId
  \/ PutGetOrCreateTag /\ Within(MaxRowsPut)
  \/ PutAddTagToDocument /\ Within(MaxRowsPut)
  \/ PutRemoveTagFromDocument
  \/ PutGetDocumentWithTags
  \/ \E u \in SignedIn, id \in OntologyIdArgs, body \in OntologyBodies :
        PutOntology(u, id, body)
  \/ PutUpdateOntology

SpecPut == Init /\ [][NextPut]_vars

\* The step is the update of the handler, and the fields its payload leaves
\* undefined are those the body omitted.
DocumentKeepsOmittedFields ==
  (request.route = "PUT /api/documents/:id" /\ request.pc = "updateDocument"
   /\ request'.pc # "updateDocument" /\ MapHas(documents, request.id)) =>
    /\ MapHas(documents', request.id)
    /\ \A f \in {"title", "category", "summary"} :
         request.update[f] = undefined =>
           documents'[request.id][f] = documents[request.id][f]

OntologyKeepsOmittedFields ==
  (request.route = "PUT /api/ontologies/:id" /\ request.pc = "updateOntology"
   /\ request'.pc # "updateOntology" /\ MapHas(ontologies, request.id)) =>
    /\ MapHas(ontologies', request.id)
    /\ \A f \in {"name", "structure"} :
         request.update[f] = undefined =>
           ontologies'[request.id][f] = ontologies[request.id][f]

\* C24: the update of PUT /api/documents/:id leaves the stored title,
\* category and summary that the body omits as they were, and the update of
\* PUT /api/ontologies/:id leaves the stored name and structure that the body
\* omits as they were.
PartialUpdateKeepsFields ==
  [][DocumentKeepsOmittedFields /\ OntologyKeepsOmittedFields]_vars

\* The tags whose name is one of the names, up to case.
TagsNamed(names) ==
  {t \in DOMAIN tags : \E i \in DOMAIN names : SameLetters(tags[t].name, names[i])}

\* C26: when PUT /api/documents/:id with a list of tag names has made its
\* changes and is about to answer, the tags of the document are exactly the
\* tags whose name matches, up to case, a name of the list.
PutReplacesTags ==
  (request.route = "PUT /api/documents/:id"
   /\ request.pc = "getDocumentWithTags" /\ request.newTagNames # <<>>) =>
    {documentTags[k].tagId : k \in JoinRowsOf(request.id)}
      = TagsNamed(request.newTagNames)

(***************************************************************************)
(* Updates whose payload carries an id.  The payload of an update is a     *)
(* Partial of the row type, of which id is a field.                        *)
(***************************************************************************)
IdDocumentUpdates == {[title |-> "b"], [id |-> 2]}

IdSemanticLinkUpdates == {[strength |-> 7], [id |-> 2]}

IdOntologyUpdates == {[name |-> <<"q">>], [id |-> 2]}

IdPriorityUpdates == {[title |-> "q"], [id |-> 2]}

NextIds ==
  \/ \E d \in InsertDocuments : CreateDocument(d) /\ Within(MaxRowsAll)
        /\ UNCHANGED requests
  \/ \E id \in DocumentIdArgs, u \in IdDocumentUpdates : UpdateDocument(id, u)
        /\ UNCHANGED requests
  \/ \E l \in InsertSemanticLinks : CreateSemanticLink(l) /\ Within(MaxRowsAll)
        /\ UNCHANGED requests
  \/ \E id \in SemanticLinkIdArgs, u \in IdSemanticLinkUpdates :
        UpdateSemanticLink(id, u) /\ UNCHANGED requests
  \/ \E o \in InsertOntologies : CreateOntology(o) /\ Within(MaxRowsAll)
        /\ UNCHANGED requests
  \/ \E id \in OntologyIdArgs, u \in IdOntologyUpdates : UpdateOntology(id, u)
        /\ UNCHANGED requests
  \/ \E p \in InsertPriorities : CreatePriority(p) /\ Within(MaxRowsAll)
        /\ UNCHANGED requests
  \/ \E id \in PriorityIdArgs, u \in IdPriorityUpdates : UpdatePriority(id, u)
        /\ UNCHANGED requests

SpecIds == Init /\ [][NextIds]_vars

\* Every row is stored under its own id, so no two rows of a kind share one.
KeyIsId ==
  \A kind \in Kinds : \A k \in DOMAIN Table(kind) : Table(kind)[k].id = k

\* No step changes the id of a row that stays in its table.
IdNeverChanges ==
  /\ \A k \in (DOMAIN documents) \cap (DOMAIN documents') :
       documents'[k].id = documents[k].id
  /\ \A k \in (DOMAIN semanticLinks) \cap (DOMAIN semanticLinks') :
       semanticLinks'[k].id = semanticLinks[k].id
  /\ \A k \in (DOMAIN ontologies) \cap (DOMAIN ontologies') :
       ontologies'[k].id = ontologies[k].id
  /\ \A k \in (DOMAIN priorities) \cap (DOMAIN priorities') :
       priorities'[k].id = priorities[k].id

\* C25: in every table every row is stored under the key equal to its id
\* field, and no update, whatever its payload carries, changes the id of a
\* row.
KeyIdAgreement == []KeyIsId /\ [][IdNeverChanges]_vars

(***************************************************************************)
(* Requests of two users.                                                  *)
(***************************************************************************)
\* The creates and the handlers hand out at most MaxRowsUsers ids.
MaxRowsUsers == 3

\* The detector answers with at most MaxRelationships relationships.
MaxRelationships == 1

Owners == {1, 2}

OwnedDocuments == [userId : Owners, title : {"a"}]

OwnedPriorities == [userId : Owners, title : {"p"}, completed : {FALSE}]

DetectedRelationships ==
  SeqsUpTo([sourceId : DocumentIdArgs, targetId : DocumentIdArgs,
            relationshipType : {"related"}, strength : {4}],
           MaxRelationships)

NextUsers ==
  \/ \E d \in OwnedDocuments :
        /\ Quiet
        /\ CreateDocument(d) /\ Within(MaxRowsUsers) /\ UNCHANGED requests
  \/ \E p \in OwnedPriorities :
        /\ Quiet
        /\ CreatePriority(p) /\ Within(MaxRowsUsers) /\ UNCHANGED requests
  \/ \E u \in Owners, id \in PriorityIdArgs, c \in BOOLEAN :
        PutPriorityComplete(u, id, c)
  \/ \E u \in Owners, l \in InsertSemanticLinks : PostSemanticLink(u, l)
  \/ PostCreateSemanticLink /\ Within(MaxRowsUsers)
  \/ \E u \in Owners, id \in DocumentIdArgs, rels \in DetectedRelationships :
        PostAnalyzeRelationships(u, id, rels)
  \/ PostAnalyzeCreateSemanticLink /\ Within(MaxRowsUsers)

SpecUsers == Init /\ [][NextUsers]_vars

\* The rows of the table that belong to other users are after the step what
\* they were before it.
OthersUntouched(before, after, U) ==
  \A k \in DOMAIN before :
    before[k].userId # U => (k \in DOMAIN after /\ after[k] = before[k])

\* The document is stored and belongs to the user.
Owns(stored, U, id) == id \in DOMAIN stored /\ stored[id].userId = U

\* A step of a handler, which serves the request of user request'.userId,
\* leaves the documents, ontologies and priorities of the other users as they
\* were, and a link it creates runs between two stored documents of that user.
HandlerStaysWithItsUser ==
  request' # request =>
    \A U \in {request'.userId} :
      /\ OthersUntouched(documents, documents', U)
      /\ OthersUntouched(ontologies, ontologies', U)
      /\ OthersUntouched(priorities, priorities', U)
      /\ \A k \in (DOMAIN semanticLinks') \ (DOMAIN semanticLinks) :
           /\ Owns(documents', U, semanticLinks'[k].sourceDocumentId)
           /\ Owns(documents', U, semanticLinks'[k].targetDocumentId)

\* C27: a request of user U changes no Document, Ontology or Priority of
\* another user and creates no SemanticLink with an endpoint that another
\* user owns or that is not stored.
CrossUserIsolation == [][HandlerStaysWithItsUser]_vars

(***************************************************************************)
(* The link-type filter of the semantic-network page, over collected rows  *)
(* of two types.                                                           *)
(***************************************************************************)
TwoLinkTypes == {"related", "citation"}

TypedRows ==
  [sourceDocumentId : {1, 2}, targetDocumentId : {1, 2},
   linkType : TwoLinkTypes, strength : Strengths]

InitTypes ==
  /\ users = EmptyMap
  /\ documents = EmptyMap
  /\ tags = EmptyMap
  /\ documentTags = EmptyMap
  /\ semanticLinks = EmptyMap
  /\ ontologies = EmptyMap
  /\ priorities = EmptyMap
  /\ currentIds = [users |-> 1, documents |-> 1, tags |-> 1, documentTags |-> 1,
                   semanticLinks |-> 1, ontologies |-> 1, priorities |-> 1]
  /\ now = 0
  /\ ret = Returned("constructor", [id |-> 0], TRUE, NoRow)
  /\ links \in SeqsUpTo(TypedRows, MaxViewed)
  /\ allLinks = <<>>
  /\ pageDocuments = FetchedDocuments
  /\ FiltersAtLoad
  /\ OtherPagesAtLoad
  /\ NoRequests

NextTypes ==
  \/ QueryAllLinks
  \/ \E type \in TwoLinkTypes : handleLinkTypeToggle(type)
  \/ \E value \in MinStrengths : SetMinStrength(value)

SpecTypes == InitTypes /\ [][NextTypes]_vars

\* C29: once the query has run, with a link-type filter that is not empty, a
\* pair of documents the page draws has an edge exactly when some collected
\* link between the two has a type of the filter and a strength of at least
\* minStrength.
TypeFilterIsComplete ==
  (QueryHasRun /\ Len(linkTypeFilter) > 0) =>
    \A docs \in {limitedDocuments}, edges \in {graphLinks} :
      \A A \in IdsOf(docs), B \in IdsOf(docs) :
        EdgesBetween(edges, A, B) # {} <=>
          \E i \in Connecting(links, {A, B}) :
            /\ Contains(linkTypeFilter, links[i].linkType)
            /\ links[i].strength >= minStrength

(***************************************************************************)
(* What deleteDocument leaves alone.                                       *)
(***************************************************************************)
\* The rows under the kept keys are what is left of the table, unchanged.
Keeps(before, after, kept) ==
  /\ DOMAIN after = kept
  /\ \A k \in kept : after[k] = before[k]

DeleteDocumentFrame ==
  ret'.op = "deleteDocument" =>
    LET D == ret'.args.id IN
      /\ Keeps(documents, documents', (DOMAIN documents) \ {D})
      /\ Keeps(documentTags, documentTags',
               {k \in DOMAIN documentTags : documentTags[k].documentId # D})
      /\ Keeps(semanticLinks, semanticLinks',
               {k \in DOMAIN semanticLinks :
                  /\ semanticLinks[k].sourceDocumentId # D
                  /\ semanticLinks[k].targetDocumentId # D})
      /\ tags' = tags
      /\ users' = users /\ ontologies' = ontologies /\ priorities' = priorities
      /\ currentIds' = currentIds

\* C30: deleteDocument(D) removes the Document row D, the join rows of D and
\* the links that touch D, and leaves every other document, join row and
\* link, the tags (those left unused too), the users, the ontologies, the
\* priorities and every id counter as they were.
CascadeDeleteFrame == [][DeleteDocumentFrame]_vars

\* Document 1 has just been deleted; document 2 still has its join row, and
\* the tag is still there.
CascadeDeleteFrameWitness ==
  /\ ret.op = "deleteDocument" /\ ret.ok /\ ret.args.id = 1
  /\ MapHas(documents, 2)
  /\ \E k \in DOMAIN documentTags :
       documentTags[k].documentId = 2 /\ MapHas(tags, documentTags[k].tagId)

====
